---- MODULE Spec2Model ----
(***************************************************************************)
(* Transaction ledger of localsafe.eth: SafeTxProvider (the in-memory map  *)
(* currentTxMapRef, written through to localStorage) and the transaction   *)
(* details view (TxDetailsClient) that signs, broadcasts and removes.      *)
(*                                                                         *)
(* EthSafeTransaction objects are mutable and shared by reference between  *)
(* the provider's arrays and the view's safeTx state, and the provider's   *)
(* arrays are handed out by getAllTransactions without a copy, so objects  *)
(* live in a heap and lists hold object ids.                               *)
(***************************************************************************)
EXTENDS Integers, Sequences, FiniteSets, TLC

\* ------------------------------------------------------------------ bounds
\* longest list kept for one Safe
MaxTxs == 2
\* live EthSafeTransaction objects
MaxObjs == 4
\* largest Safe threshold
MaxThreshold == 2
\* hex digits of a personal_sign message after "0x"
MaxHexDigits == 4
\* WalletConnect requests in one session
MaxRequests == 2
\* maxAttempts of predictConsistentSafeAddressAcrossChains
MaxAttempts == 2
\* largest nonce of a Safe or of a queued transaction
MaxNonce == 3

\* ----------------------------------------------------------------- domains
Safes == {"s1", "s2"}
ObjIds == 1..MaxObjs


\* the account connected in the wallet (wagmi reports the checksummed form)
connectedAddress == [id |-> "o1", uc |-> TRUE]

\* ------------------------------------------------------------ JS primitives
\* Number(x): a numeric string and the number convert to the same value
Number(n) == n.v

\* String.prototype.toLowerCase on an address
ToLowerCase(a) == [a EXCEPT !.uc = FALSE]

\* decimal digits of a natural number below 100, as String(n) writes them
Digits(n) == IF n < 10 THEN <<n>> ELSE <<n \div 10, n % 10>>

\* a < b for strings, by code unit
RECURSIVE StrLess(_, _)
StrLess(a, b) ==
  IF b = <<>> THEN FALSE
  ELSE IF a = <<>> THEN TRUE
  ELSE IF Head(a) # Head(b) THEN Head(a) < Head(b)
  ELSE StrLess(Tail(a), Tail(b))

Range(f) == {f[i] : i \in DOMAIN f}
TheOne(S) == CHOOSE x \in S : TRUE

\* plain objects used as dictionaries: a function whose domain is the keys
GetList(m, s) == IF s \in DOMAIN m THEN m[s] ELSE <<>>
SetKey(m, s, v) == [k \in (DOMAIN m) \cup {s} |-> IF k = s THEN v ELSE m[k]]
DelKey(m, s) == [k \in (DOMAIN m) \ {s} |-> m[k]]
NoKeys == [k \in {} |-> <<>>]

\* --------------------------------------------- Map<string, EthSafeSignature>
\* insertion-ordered entries [key, val]; set() on a present key keeps its place
MapHas(m, k) == \E i \in 1..Len(m) : m[i].key = k
MapSet(m, k, v) ==
  IF MapHas(m, k)
  THEN [i \in 1..Len(m) |-> IF m[i].key = k THEN [key |-> k, val |-> v] ELSE m[i]]
  ELSE Append(m, [key |-> k, val |-> v])
MapValues(m) == [i \in 1..Len(m) |-> m[i].val]

\* ------------------------------------------------------- EthSafeTransaction
NewEthSafeTransaction(data) == [data |-> data, signatures |-> <<>>]

MutAddSignatureCaseSensitive(tx, sig) ==
  [tx EXCEPT !.signatures = MapSet(@, sig.signer, sig)]

\* EthSafeTransaction.addSignature: signatures.set(signer.toLowerCase(), sig)
addSignature(tx, sig) ==
  [tx EXCEPT !.signatures = MapSet(@, ToLowerCase(sig.signer), sig)]

RECURSIVE AddSignatures(_, _)
AddSignatures(tx, sigs) ==
  IF sigs = <<>> THEN tx
  ELSE AddSignatures(addSignature(tx, Head(sigs)), Tail(sigs))

\* new EthSafeTransaction(stored.data) followed by addSignature of each entry
Revive(stored) == AddSignatures(NewEthSafeTransaction(stored.data), stored.signatures)

\* { data: tx.data, signatures: Array.from(tx.signatures.values()) }
ToStored(tx) == [data |-> tx.data, signatures |-> MapValues(tx.signatures)]

\* kit.getTransactionHash: the EIP-712 digest of the ten fields; the nonce is
\* encoded as uint256 whatever its JSON kind
TransactionHash(data) == [n |-> Number(data.nonce), b |-> data.body]

\* JSON.stringify distinguishes an object from a string by its first character
JSONstringifyObject(data) == [t |-> "{", data |-> data]
JSONstringifyString(str) == [t |-> "\"", str |-> str]

\* ------------------------------------------------------------------ sorting
MutNonceCompareAsStrings(a, b) ==
  IF StrLess(Digits(a.v), Digits(b.v)) THEN -1
  ELSE IF StrLess(Digits(b.v), Digits(a.v)) THEN 1 ELSE 0

\* (a, b) => Number(a.data.nonce) - Number(b.data.nonce), on the two nonces
NonceCompare(a, b) == Number(a) - Number(b)

\* Array.prototype.sort is stable; val[x] is the transaction of element x
RECURSIVE InsertSorted(_, _, _)
InsertSorted(s, x, val) ==
  IF s = <<>> THEN <<x>>
  ELSE IF NonceCompare(val[s[Len(s)]].data.nonce, val[x].data.nonce) <= 0
       THEN Append(s, x)
       ELSE Append(InsertSorted(SubSeq(s, 1, Len(s) - 1), x, val), s[Len(s)])

RECURSIVE SortByNonce(_, _)
SortByNonce(s, val) ==
  IF s = <<>> THEN <<>>
  ELSE InsertSorted(SortByNonce(SubSeq(s, 1, Len(s) - 1), val), s[Len(s)], val)

\* existingTxs.findIndex(tx => tx.data.nonce === nonce): 0 when none matches
FindIndex(list, val, nonce) ==
  IF \E i \in 1..Len(list) : val[list[i]].data.nonce = nonce
  THEN CHOOSE i \in 1..Len(list) :
         /\ val[list[i]].data.nonce = nonce
         /\ \A j \in 1..(i - 1) : val[list[j]].data.nonce # nonce
  ELSE 0

\* ------------------------------------------------------------------- state
VARIABLES
  heap,        \* EthSafeTransaction objects: [live ObjIds -> [data, signatures]]
  txMap,       \* currentTxMapRef.current: [safeAddress -> array of object ids]
  storage,     \* localStorage item SAFE_TX_STORAGE_KEY: [exists, map]
  hydrated,    \* the provider's mount effect has run since the last page load
  view,        \* TxDetailsClient: its route, state hooks and fetchTx position
  bcast,       \* handleBroadcast suspended at await broadcastSafeTransaction
  safeInfo,    \* what the chain client reports: [threshold, isOwner]
  outcome,     \* how the last handler ended for its caller: "returned" | "threw"
  hash,        \* a call of a function without state of its own: [fn, args, pc, result]
  wc,          \* WalletConnectProvider's state and WalletConnectRequestHandler's
  lastOp       \* name of the last handler that ran

vars == <<heap, txMap, storage, hydrated, view, bcast, safeInfo, outcome, hash, wc, lastOp>>

\* WalletConnect before the wallet is initialised: no request, nothing routed
NoRequest == [id |-> 0, method |-> "none"]
NoCall == [fn |-> "none", id |-> 0]
NoWalletConnect ==
  [web3wallet |-> FALSE, pendingRequest |-> NoRequest, error |-> "",
   arrived |-> {}, processedRequestIds |-> {}, safeAddress |-> "",
   stored |-> 0, routed |-> <<>>, alerts |-> {}, inflight |-> NoCall, sent |-> {},
   thrown |-> ""]

\* no function of utils/messageHashing.ts has been called
NoHash == [pc |-> "idle"]
NoList == [alias |-> FALSE, own |-> <<>>]
NoView == [mounted |-> FALSE, safe |-> "s1", txHash |-> [n |-> 9, b |-> "A"],
           loading |-> FALSE, allTxs |-> NoList, idx |-> 0, cur |-> {},
           safeTx |-> {}, broadcasting |-> FALSE, showModal |-> FALSE,
           broadcastError |-> FALSE]
NoBcast == [active |-> FALSE, safe |-> "s1", tx |-> {}]

\* the array a handle returned by getAllTransactions denotes
Contents(m, v) == IF v.allTxs.alias THEN GetList(m, v.safe) ELSE v.allTxs.own

\* object ids reachable from the provider, the view and a pending broadcast
Roots(m, v, b) ==
  UNION {Range(m[s]) : s \in DOMAIN m} \cup v.cur \cup v.safeTx \cup b.tx
    \cup (IF v.allTxs.alias THEN {} ELSE Range(v.allTxs.own))

\* the k smallest ids of a set
RECURSIVE PickIds(_, _)
PickIds(free, k) ==
  IF k = 0 THEN <<>>
  ELSE LET o == CHOOSE x \in free : \A y \in free : x <= y
       IN <<o>> \o PickIds(free \ {o}, k - 1)

\* currentTxMapRef.current[s] = <a new array> leaves an array handed out
\* earlier to the view as it was
Detach(v, m, reassigned) ==
  IF v.allTxs.alias /\ v.safe \in reassigned
  THEN [v EXCEPT !.allTxs = [alias |-> FALSE, own |-> GetList(m, v.safe)]]
  ELSE v

\* -------------------------------------------------------- SafeTxProvider
StoredList(h, list) == [i \in 1..Len(list) |-> ToStored(h[list[i]])]

\* let map = {}; if (rawMap) map = JSON.parse(rawMap)
ParsedMap(st) == IF st.exists THEN st.map ELSE NoKeys

\* saveTransaction(safeAddress, txObj): the array after findIndex / push / sort
SavedList(h, m, s, o) ==
  LET existingTxs == GetList(m, s)
      existingIndex == FindIndex(existingTxs, h, h[o].data.nonce)
      updated == IF existingIndex >= 1
                 THEN [existingTxs EXCEPT ![existingIndex] = o]
                 ELSE Append(existingTxs, o)
  IN SortByNonce(updated, h)

MutSaveTransactionStaleWrite(h, m, st, s, o) ==
  LET list == SavedList(h, m, s, o)
  IN [txMap |-> SetKey(m, s, list),
      storage |-> [exists |-> TRUE,
                   map |-> SetKey(ParsedMap(st), s, StoredList(h, GetList(m, s)))]]

saveTransaction(h, m, st, s, o) ==
  LET list == SavedList(h, m, s, o)
  IN [txMap |-> SetKey(m, s, list),
      storage |-> [exists |-> TRUE,
                   map |-> SetKey(ParsedMap(st), s, StoredList(h, list))]]

\* getAllTransactions(safeAddress): the provider's own array when there is one
getAllTransactions(m, s) ==
  IF s \in DOMAIN m THEN [alias |-> TRUE, own |-> <<>>] ELSE NoList

\* removeTransaction(safeAddress, txHash?); txHash = [def, str]
removeTransaction(h, m, st, s, txHash) ==
  IF ~txHash.def
  THEN [txMap |-> SetKey(m, s, <<>>),
        storage |-> [exists |-> TRUE, map |-> DelKey(ParsedMap(st), s)]]
  ELSE LET existingTxs == GetList(m, s)
           Keep(o) == JSONstringifyObject(h[o].data) # JSONstringifyString(txHash.str)
           filtered == SelectSeq(existingTxs, Keep)
       IN [txMap |-> SetKey(m, s, filtered),
           storage |-> [exists |-> TRUE,
                        map |-> IF Len(filtered) > 0
                                THEN SetKey(ParsedMap(st), s, StoredList(h, filtered))
                                ELSE DelKey(ParsedMap(st), s)]]

Undefined == [def |-> FALSE, str |-> [n |-> 9, b |-> "A"]]
Defined(x) == [def |-> TRUE, str |-> x]

MutExportTxWithoutSignatures(h, m, s) ==
  IF GetList(m, s) = <<>>
  THEN [shape |-> "empty", entries |-> <<>>]
  ELSE [shape |-> "transactions",
        entries |-> [i \in 1..Len(m[s]) |->
           [hasData |-> TRUE, data |-> h[m[s][i]].data, signatures |-> <<>>]]]

\* exportTx(safeAddress): "" when nothing is stored, else {transactions: [...]}
exportTx(h, m, s) ==
  IF GetList(m, s) = <<>>
  THEN [shape |-> "empty", entries |-> <<>>]
  ELSE [shape |-> "transactions",
        entries |-> [i \in 1..Len(m[s]) |->
           LET tx == h[m[s][i]]
           IN [hasData |-> TRUE, data |-> tx.data,
               signatures |-> [j \in 1..Len(tx.signatures) |->
                  [signer |-> tx.signatures[j].val.signer,
                   data |-> tx.signatures[j].val.data,
                   isContractSignature |-> tx.signatures[j].val.isContractSignature]]]]]

\* JSON.parse(json) throws on "" and on text that is not JSON
ParseThrows(json) == json.shape \in {"empty", "invalid"}

\* importTx lines 630-677: the transactions built from the parsed document
HasData(e) == e.hasData
MutImportedTransactionsNewShapeOnly(json) ==
  IF json.shape = "transactions"
  THEN LET withData == SelectSeq(json.entries, HasData)
       IN [i \in 1..Len(withData) |-> Revive(withData[i])]
  ELSE <<>>

ImportedTransactions(json) ==
  IF json.shape = "transactions"
  THEN LET withData == SelectSeq(json.entries, HasData)
       IN [i \in 1..Len(withData) |-> Revive(withData[i])]
  ELSE IF json.shape = "tx" /\ Len(json.entries) = 1 /\ json.entries[1].hasData
  THEN <<Revive(json.entries[1])>>
  ELSE <<>>

\* transactions.sort(...) on the freshly built objects
MutImportKeepsDocumentOrder(json) == ImportedTransactions(json)
SortedImport(json) ==
  LET txs == ImportedTransactions(json)
      idx == [i \in 1..Len(txs) |-> i]
      val == [i \in 1..Len(txs) |-> txs[i]]
      order == SortByNonce(idx, val)
  IN [i \in 1..Len(txs) |-> txs[order[i]]]

\* -------------------------------------------------------------------- steps
FreeIds(live) == ObjIds \ live

\* Object ids carry no meaning: a handler's result is written with the live
\* objects numbered in the order the provider's arrays, then the view, reach them
RECURSIVE Dedup(_, _)
Dedup(seq, seen) ==
  IF seq = <<>> THEN <<>>
  ELSE IF Head(seq) \in seen THEN Dedup(Tail(seq), seen)
  ELSE <<Head(seq)>> \o Dedup(Tail(seq), seen \cup {Head(seq)})

AsSeq(S) == IF S = {} THEN <<>> ELSE <<TheOne(S)>>

ReachOrder(m, v, b) ==
  Dedup(GetList(m, "s1") \o GetList(m, "s2") \o v.allTxs.own
          \o AsSeq(v.cur) \o AsSeq(v.safeTx) \o AsSeq(b.tx), {})

\* the state a handler leaves, unreachable objects dropped
Renumbering(order) == [o \in Range(order) |-> CHOOSE i \in 1..Len(order) : order[i] = o]
RenList(ren, l) == [i \in 1..Len(l) |-> ren[l[i]]]
RenSet(ren, S) == {ren[o] : o \in S}

FinishWith(h, m, st, v, b, op, out) ==
  \E order \in {ReachOrder(m, v, b)} :
  \E ren \in {Renumbering(order)} :
     /\ heap' = [i \in 1..Len(order) |-> h[order[i]]]
     /\ txMap' = [k \in DOMAIN m |-> RenList(ren, m[k])]
     /\ storage' = st
     /\ view' = [v EXCEPT !.allTxs.own = RenList(ren, @), !.cur = RenSet(ren, @),
                          !.safeTx = RenSet(ren, @)]
     /\ bcast' = [b EXCEPT !.tx = RenSet(ren, @)]
     /\ lastOp' = op
     /\ outcome' = out
     /\ UNCHANGED <<hydrated, safeInfo, hash, wc>>

\* the state a handler that returns normally leaves
Finish(h, m, st, v, b, op) == FinishWith(h, m, st, v, b, op, "returned")

Init ==
  /\ heap = <<>>
  /\ txMap = NoKeys
  /\ storage = [exists |-> FALSE, map |-> NoKeys]
  /\ hydrated = FALSE
  /\ view = NoView
  /\ bcast = NoBcast
  /\ safeInfo \in [threshold : 1..MaxThreshold, isOwner : BOOLEAN]
  /\ outcome = "returned"
  /\ hash = NoHash
  /\ wc = NoWalletConnect
  /\ lastOp = "init"

\* the same start with the Safe the scenarios of section 8 use
InitLedger == Init /\ safeInfo = [threshold |-> MaxThreshold, isOwner |-> TRUE]

\* the page is loaded again: memory is gone, localStorage stays
Reload ==
  /\ heap' = <<>>
  /\ txMap' = NoKeys
  /\ hydrated' = FALSE
  /\ view' = NoView
  /\ bcast' = NoBcast
  /\ lastOp' = "reload"
  /\ outcome' = "returned"
  /\ UNCHANGED <<storage, safeInfo, hash, wc>>

\* what the mount effect (lines 469-507) leaves in memory
Hydration ==
  IF ~storage.exists
  THEN [heap |-> heap, txMap |-> txMap, view |-> view, fits |-> TRUE]
  ELSE LET parsedMap == storage.map
           keys == DOMAIN parsedMap
           v == Detach(view, txMap, keys)
           kept == Roots([k \in (DOMAIN txMap) \ keys |-> txMap[k]], v, bcast)
           l1 == GetList(parsedMap, "s1")
           l2 == GetList(parsedMap, "s2")
           all == l1 \o l2
           ids == PickIds(FreeIds(kept), Len(all))
           new(s) == IF s = "s1" THEN SubSeq(ids, 1, Len(l1))
                     ELSE SubSeq(ids, Len(l1) + 1, Len(all))
       IN IF Len(all) > Cardinality(FreeIds(kept))
          THEN [heap |-> heap, txMap |-> txMap, view |-> view, fits |-> FALSE]
          ELSE [heap |-> [o \in kept \cup Range(ids) |->
                            IF o \in kept THEN heap[o]
                            ELSE Revive(all[CHOOSE i \in 1..Len(ids) : ids[i] = o])],
                txMap |-> [k \in (DOMAIN txMap) \cup keys |->
                            IF k \in keys THEN new(k) ELSE txMap[k]],
                view |-> v, fits |-> TRUE]

Hydrate ==
  /\ ~hydrated
  /\ Hydration.fits
  /\ hydrated' = TRUE
  /\ \E r \in {Hydration} :
     \E order \in {ReachOrder(r.txMap, r.view, bcast)} :
     \E ren \in {Renumbering(order)} :
        /\ heap' = [i \in 1..Len(order) |-> r.heap[order[i]]]
        /\ txMap' = [k \in DOMAIN r.txMap |-> RenList(ren, r.txMap[k])]
        /\ view' = [r.view EXCEPT !.allTxs.own = RenList(ren, @), !.cur = RenSet(ren, @),
                                  !.safeTx = RenSet(ren, @)]
        /\ bcast' = [bcast EXCEPT !.tx = RenSet(ren, @)]
  /\ lastOp' = "hydrate"
  /\ outcome' = "returned"
  /\ UNCHANGED <<storage, safeInfo, hash, wc>>

\* saveTransaction called with a transaction object built elsewhere (useSafe);
\* setItemThrows: localStorage.setItem at line 548 throws (quota exceeded),
\* after line 535 has assigned the array, and the exception leaves the function
SaveWith(s, data, sigs, setItemThrows) ==
  /\ FreeIds(DOMAIN heap) # {}
  /\ \E o \in {PickIds(FreeIds(DOMAIN heap), 1)[1]} :
     \E h \in {[x \in DOMAIN heap \cup {o} |->
                 IF x = o THEN AddSignatures(NewEthSafeTransaction(data), sigs)
                 ELSE heap[x]]} :
     \E r \in {saveTransaction(h, txMap, storage, s, o)} :
        /\ Len(r.txMap[s]) <= MaxTxs
        /\ IF setItemThrows
           THEN FinishWith(h, r.txMap, storage, view, bcast,
                           "saveTransaction(storage failed)", "threw")
           ELSE Finish(h, r.txMap, r.storage, view, bcast, "saveTransaction")

Save(s, data, sigs) == SaveWith(s, data, sigs, FALSE)

\* removeTransaction called from any page; setItemThrows: localStorage.setItem
\* at line 576 or 602 throws after the array was assigned at line 568 or 586
RemoveWith(s, txHash, setItemThrows) ==
  \E r \in {removeTransaction(heap, txMap, storage, s, txHash)} :
  \E v \in {Detach(view, txMap, {s})} :
     IF setItemThrows
     THEN FinishWith(heap, r.txMap, storage, v, bcast,
                     "removeTransaction(storage failed)", "threw")
     ELSE Finish(heap, r.txMap, r.storage, v, bcast,
                 IF txHash.def THEN "removeTransaction(hash)" ELSE "removeTransaction()")

Remove(s, txHash) == RemoveWith(s, txHash, FALSE)

\* importTx(safeAddress, json), lines 627-700; setItemThrows: localStorage.setItem
\* at line 694 throws after line 683 has assigned the array, and the catch at
\* line 697 swallows the exception
ImportWith(s, json, op, setItemThrows) ==
  \E transactions \in {IF ParseThrows(json) THEN <<>> ELSE SortedImport(json)} :
  IF Len(transactions) = 0
  THEN Finish(heap, txMap, storage, view, bcast, op)
  ELSE \E v \in {Detach(view, txMap, {s})} :
       \E kept \in {Roots(DelKey(txMap, s), v, bcast)} :
          /\ Len(transactions) <= Cardinality(FreeIds(kept))
          /\ Len(transactions) <= MaxTxs
          /\ \E ids \in {PickIds(FreeIds(kept), Len(transactions))} :
             \E h \in {[o \in kept \cup Range(ids) |->
                          IF o \in kept THEN heap[o]
                          ELSE transactions[CHOOSE i \in 1..Len(ids) : ids[i] = o]]} :
                Finish(h, SetKey(txMap, s, ids),
                       IF setItemThrows THEN storage
                       ELSE [exists |-> TRUE,
                             map |-> SetKey(ParsedMap(storage), s, StoredList(h, ids))],
                       v, bcast, op)

ImportStep(s, json, op) == ImportWith(s, json, op, FALSE)

Import(s, json) == ImportStep(s, json, "importTx")

\* importTx whose write to localStorage fails
ImportStorageFails(s, json) ==
  /\ ~ParseThrows(json)
  /\ Len(ImportedTransactions(json)) > 0
  /\ ImportWith(s, json, "importTx(storage failed)", TRUE)

\* the document exportTx wrote is handed back to importTx
ExportImport(s) == ImportStep(s, exportTx(heap, txMap, s), "importTx(exportTx)")

\* -------------------------------------------------------- TxDetailsClient
\* fetchTx's for...of loop: the element the array iterator yields at index i
NextElement(v, m, i) ==
  IF i <= Len(Contents(m, v))
  THEN [v EXCEPT !.idx = i, !.cur = {Contents(m, v)[i]}]
  ELSE [v EXCEPT !.idx = 0, !.cur = {}, !.allTxs = NoList,
                 !.safeTx = {}, !.loading = FALSE]

\* the route /safe/:address/tx/:txHash is opened; the fetch effect runs up to
\* its first await
Mount(s, txHash) ==
  /\ ~view.mounted
  /\ ~bcast.active
  /\ \E v \in {[NoView EXCEPT !.mounted = TRUE, !.safe = s, !.txHash = txHash,
                              !.loading = TRUE,
                              !.allTxs = getAllTransactions(txMap, s)]} :
     \E v1 \in {NextElement(v, txMap, 1)} :
        Finish(heap, txMap, storage, v1, bcast, "view")

\* await kit.getTransactionHash(tx) resolves
FetchStep ==
  /\ view.mounted
  /\ view.loading
  /\ LET tx == TheOne(view.cur)
     IN IF TransactionHash(heap[tx].data) = view.txHash
        THEN Finish(heap, txMap, storage,
                    [view EXCEPT !.idx = 0, !.cur = {}, !.allTxs = NoList,
                                 !.safeTx = {tx}, !.loading = FALSE],
                    bcast, "view")
        ELSE \E v1 \in {NextElement(view, txMap, view.idx + 1)} :
                Finish(heap, txMap, storage, v1, bcast, "view")

\* the user leaves the page
Unmount ==
  /\ view.mounted
  /\ Finish(heap, txMap, storage, NoView, bcast, "view")

\* values the render derives from the state hooks (lines 754-761, 1478-1484)
SignatureCount(h, v) == Len(h[TheOne(v.safeTx)].signatures)
hasSignedThisTx(h, v) ==
  v.safeTx # {} /\ MapHas(h[TheOne(v.safeTx)].signatures, ToLowerCase(connectedAddress))
canExecuteDirectly(h, v) ==
  IF v.safeTx # {} /\ safeInfo.isOwner /\ ~hasSignedThisTx(h, v)
  THEN safeInfo.threshold - SignatureCount(h, v) = 1
  ELSE FALSE
MutBroadcastButtonOffByOne(h, v) ==
  /\ v.safeTx # {}
  /\ SignatureCount(h, v) >= safeInfo.threshold - 1
  /\ ~v.broadcasting
BroadcastButtonEnabled(h, v) ==
  /\ v.safeTx # {}
  /\ SignatureCount(h, v) >= safeInfo.threshold
  /\ ~v.broadcasting
ActionsShown(v) == v.mounted /\ ~v.loading /\ v.safeTx # {}

\* which case of handleAddSignature ran: a new signer, the same spelling of a
\* signer already present, or another spelling of one
AddSignatureCase(tx, signerAddress) ==
  IF ~MapHas(tx.signatures, ToLowerCase(signerAddress)) THEN "handleAddSignature"
  ELSE IF \E i \in 1..Len(tx.signatures) : tx.signatures[i].val.signer = signerAddress
  THEN "handleAddSignature(again)"
  ELSE "handleAddSignature(other case)"

\* handleAddSignature with a well-formed signer address and signature
handleAddSignature(signerAddress, signatureData) ==
  /\ ActionsShown(view)
  /\ FreeIds(DOMAIN heap) # {}
  /\ \E safeTx \in view.safeTx :
     \E ethSignature \in {[signer |-> signerAddress, data |-> signatureData,
                           isContractSignature |-> FALSE]} :
     \E h1 \in {[heap EXCEPT ![safeTx] = addSignature(@, ethSignature)]} :
     \E r \in {saveTransaction(h1, txMap, storage, view.safe, safeTx)} :
     \E updatedTx \in {PickIds(FreeIds(DOMAIN heap), 1)[1]} :
     \E h2 \in {[o \in DOMAIN h1 \cup {updatedTx} |->
                  IF o = updatedTx
                  THEN AddSignatures(NewEthSafeTransaction(h1[safeTx].data),
                                     MapValues(h1[safeTx].signatures))
                  ELSE h1[o]]} :
        /\ Len(r.txMap[view.safe]) <= MaxTxs
        /\ Finish(h2, r.txMap, r.storage, [view EXCEPT !.safeTx = {updatedTx}],
                  bcast, AddSignatureCase(heap[safeTx], signerAddress))

\* handleExportSingle (lines 952-984): the document { tx: { data, signatures } }
\* written for the transaction the view shows
handleExportSingle(h, v) ==
  LET safeTx == h[TheOne(v.safeTx)]
  IN [shape |-> "tx",
      entries |-> <<[hasData |-> TRUE, data |-> safeTx.data,
                     signatures |-> [j \in 1..Len(safeTx.signatures) |->
                        [signer |-> safeTx.signatures[j].val.signer,
                         data |-> safeTx.signatures[j].val.data,
                         isContractSignature |->
                            safeTx.signatures[j].val.isContractSignature]]]>>]

\* the file handleExportSingle wrote is imported into Safe s
ImportSingle(s) ==
  /\ ActionsShown(view)
  /\ ImportStep(s, handleExportSingle(heap, view), "importTx(single)")

\* handleBroadcast up to await broadcastSafeTransaction(safeTx); it is reached
\* from the Broadcast button or from the Execute entry of the sign dropdown
handleBroadcast(direct) ==
  /\ ActionsShown(view)
  /\ ~bcast.active
  /\ IF direct
     THEN canExecuteDirectly(heap, view) /\ ~view.broadcasting
     ELSE BroadcastButtonEnabled(heap, view)
  /\ Finish(heap, txMap, storage, [view EXCEPT !.broadcasting = TRUE],
            [active |-> TRUE, safe |-> view.safe, tx |-> view.safeTx],
            IF direct THEN "handleBroadcast(execute)" ELSE "handleBroadcast(button)")

\* the broadcast resolved: lines 927-939 and 945
BroadcastSucceeded ==
  /\ bcast.active
  /\ \E r \in {removeTransaction(heap, txMap, storage, bcast.safe, Undefined)} :
     \E v \in {Detach(view, txMap, {bcast.safe})} :
     \E v1 \in {IF v.mounted
                THEN [v EXCEPT !.broadcasting = FALSE, !.showModal = TRUE,
                               !.broadcastError = FALSE]
                ELSE v} :
        Finish(heap, r.txMap, r.storage, v1, NoBcast, "broadcastSucceeded")

\* the broadcast threw: lines 940-945
BroadcastFailed ==
  /\ bcast.active
  /\ Finish(heap, txMap, storage,
            IF view.mounted
            THEN [view EXCEPT !.broadcasting = FALSE, !.showModal = TRUE,
                              !.broadcastError = TRUE]
            ELSE view,
            NoBcast, "broadcastFailed")

\* BroadcastModal onSuccess (lines 1601-1605)
ModalSuccess ==
  /\ view.mounted /\ view.showModal /\ ~view.broadcastError
  /\ \E r \in {removeTransaction(heap, txMap, storage, view.safe, Undefined)} :
        Finish(heap, r.txMap, r.storage, NoView, bcast, "modalSuccess")

\* BroadcastModal onClose (line 1600)
ModalClose ==
  /\ view.mounted /\ view.showModal
  /\ Finish(heap, txMap, storage, [view EXCEPT !.showModal = FALSE], bcast, "view")

\* ---------------------------------------------------------- specifications
Num(n) == [k |-> "num", v |-> n]
Str(n) == [k |-> "str", v |-> n]
Tx(nonce, body) == [nonce |-> nonce, body |-> body]
Sig(id, uc, data, c) ==
  [signer |-> [id |-> id, uc |-> uc], data |-> data, isContractSignature |-> c]
Entry(data, sigs) == [hasData |-> TRUE, data |-> data, signatures |-> sigs]
Doc(entries) == [shape |-> "transactions", entries |-> entries]

\* one step of the program with its inputs drawn from the given sets
NextOf(SaveIn, RemoveIn, ImportIn, MountIn, AddIn) ==
  \/ Reload
  \/ Hydrate
  \/ \E i \in SaveIn : hydrated /\ Save(i.safe, i.data, i.sigs)
  \/ \E i \in RemoveIn : hydrated /\ Remove(i.safe, i.txHash)
  \/ \E i \in ImportIn : hydrated /\ Import(i.safe, i.json)
  \/ \E i \in MountIn : hydrated /\ Mount(i.safe, i.txHash)
  \/ FetchStep
  \/ Unmount
  \/ \E i \in AddIn : handleAddSignature(i.signer, i.data)
  \/ \E direct \in BOOLEAN : handleBroadcast(direct)
  \/ BroadcastSucceeded
  \/ BroadcastFailed
  \/ ModalSuccess
  \/ ModalClose

\* ledger scenarios: several nonces and bodies on s1, few signatures
LedgerTxs == {Tx(Num(9), "A"), Tx(Num(9), "B"), Tx(Num(10), "A")}
LedgerSigs == {<<>>}
LedgerSaveIn ==
  [safe : {"s1"}, data : LedgerTxs, sigs : LedgerSigs]
    \cup [safe : {"s2"}, data : {Tx(Num(9), "A")}, sigs : {<<>>}]
LedgerRemoveIn ==
  [safe : Safes, txHash : {Undefined}]
    \cup [safe : {"s1"}, txHash : {Defined(TransactionHash(Tx(Num(9), "A")))}]
LedgerDocs ==
  {Doc(<<>>),
   Doc(<<Entry(Tx(Num(9), "A"), <<>>)>>),
   Doc(<<Entry(Tx(Str(10), "A"), <<>>), Entry(Tx(Num(9), "B"), <<Sig("o2", FALSE, "x", FALSE)>>)>>),
   Doc(<<Entry(Tx(Num(9), "A"), <<>>), Entry(Tx(Num(9), "B"), <<Sig("o2", FALSE, "x", FALSE)>>)>>)}
LedgerImportIn == [safe : {"s1"}, json : LedgerDocs]
LedgerMountIn == [safe : {"s1"}, txHash : {TransactionHash(d) : d \in LedgerTxs}]
LedgerAddIn == [signer : {connectedAddress}, data : {"x"}]

Next == NextOf(LedgerSaveIn, LedgerRemoveIn, LedgerImportIn, LedgerMountIn, LedgerAddIn)

Spec == InitLedger /\ [][Next]_vars

\* cold-start scenarios: the context functions exist from the provider's first
\* render, its mount effect runs after the mount effects of the components
\* below it, so a call made from one of those runs before hydration
ColdSaveIn ==
  [safe : Safes, data : {Tx(Num(9), "A"), Tx(Num(9), "B"), Tx(Num(10), "A")},
   sigs : {<<>>}]
ColdRemoveIn ==
  [safe : {"s1"}, txHash : {Undefined, Defined(TransactionHash(Tx(Num(9), "A")))}]
ColdImportIn == [safe : {"s1"}, json : {Doc(<<Entry(Tx(Num(9), "A"), <<>>)>>)}]

NextCold ==
  \/ Reload
  \/ Hydrate
  \/ \E i \in ColdSaveIn : Save(i.safe, i.data, i.sigs)
  \/ \E i \in ColdRemoveIn : Remove(i.safe, i.txHash)
  \/ \E i \in ColdImportIn : Import(i.safe, i.json)

SpecCold == InitLedger /\ [][NextCold]_vars

\* --------------------------------------------------------- WalletConnect
\* the ledger and the hashing functions take no part in these steps
WalletConnectStep(w, op, out) ==
  /\ wc' = w
  /\ lastOp' = op
  /\ outcome' = out
  /\ UNCHANGED <<heap, txMap, storage, hydrated, view, bcast, safeInfo, hash>>

\* WalletConnectRequestHandler's effect, run after a render in which
\* pendingRequest, router or safeAddress changed
SendMethods == {"eth_sendTransaction"}
SignMethods == {"eth_signTypedData", "eth_signTypedData_v4", "personal_sign", "eth_sign"}
Routed(w, id) == IF id \in DOMAIN w.routed THEN w.routed[id] ELSE 0
RequestHandlerEffect(w) ==
  LET id == w.pendingRequest.id
      marked == [w EXCEPT !.processedRequestIds = @ \cup {id}]
  IN IF w.pendingRequest = NoRequest THEN w
     ELSE IF id \in w.processedRequestIds THEN w
     ELSE IF w.pendingRequest.method \in SendMethods \cup SignMethods
     THEN IF w.safeAddress = ""
          THEN [marked EXCEPT !.alerts = @ \cup {id}]
          ELSE [marked EXCEPT !.stored = id, !.routed = SetKey(@, id, Routed(w, id) + 1)]
     ELSE w

\* initializeWallet has finished: the listeners are registered
WalletInitialized ==
  /\ ~wc.web3wallet
  /\ WalletConnectStep([wc EXCEPT !.web3wallet = TRUE, !.error = ""],
                       "initializeWallet", "returned")

\* the session_request listener (lines 98-100), then the handler's effect
SessionRequest(request) ==
  /\ wc.web3wallet
  /\ request.id \notin wc.arrived
  /\ WalletConnectStep(
       RequestHandlerEffect([wc EXCEPT !.pendingRequest = request,
                                       !.arrived = @ \cup {request.id}]),
       "session_request", "returned")

\* the route changes (the user opens a Safe or leaves it, or router.push has
\* taken effect): useParams gives another address, the effect runs again
RouteChanged(address) ==
  /\ address # wc.safeAddress
  /\ WalletConnectStep(RequestHandlerEffect([wc EXCEPT !.safeAddress = address]),
                       "routeChanged", "returned")

\* approveRequest(topic, response) up to its await
approveRequest ==
  /\ wc.inflight = NoCall
  /\ IF ~wc.web3wallet \/ wc.pendingRequest = NoRequest
     THEN WalletConnectStep([wc EXCEPT !.thrown = "No pending request"],
                            "approveRequest", "threw")
     ELSE WalletConnectStep(
            [wc EXCEPT !.inflight = [fn |-> "approveRequest", id |-> wc.pendingRequest.id],
                       !.thrown = ""],
            "approveRequest", "awaiting")

\* rejectRequest(topic, error, requestId) up to its await; requestId 0 stands
\* for an omitted argument
rejectRequest(requestId) ==
  /\ wc.inflight = NoCall
  /\ IF ~wc.web3wallet
     THEN WalletConnectStep([wc EXCEPT !.thrown = "Web3Wallet not initialized"],
                            "rejectRequest", "threw")
     ELSE \E id \in {IF requestId # 0 THEN requestId ELSE wc.pendingRequest.id} :
            IF id = 0
            THEN WalletConnectStep([wc EXCEPT !.thrown = "No request ID available"],
                                   "rejectRequest", "threw")
            ELSE WalletConnectStep(
                   [wc EXCEPT !.inflight = [fn |-> "rejectRequest", id |-> id],
                              !.thrown = ""],
                   "rejectRequest", "awaiting")

\* web3wallet.respondSessionRequest resolves: setPendingRequest(null),
\* setError(null); the handler's effect sees no request
RespondResolved ==
  /\ wc.inflight # NoCall
  /\ WalletConnectStep(
       RequestHandlerEffect([wc EXCEPT !.inflight = NoCall, !.sent = @ \cup {wc.inflight.id},
                                       !.pendingRequest = NoRequest, !.error = ""]),
       "respondResolved", "returned")

\* web3wallet.respondSessionRequest rejects: setError(err); throw err
MutRespondFailureClearsRequest ==
  /\ wc.inflight # NoCall
  /\ WalletConnectStep(
       RequestHandlerEffect([wc EXCEPT !.inflight = NoCall, !.pendingRequest = NoRequest,
                                       !.error = "respond failed",
                                       !.thrown = "respond failed"]),
       "respondFailed", "threw")
RespondFailed ==
  /\ wc.inflight # NoCall
  /\ WalletConnectStep([wc EXCEPT !.inflight = NoCall, !.error = "respond failed",
                                  !.thrown = "respond failed"],
                       "respondFailed", "threw")

\* clearPendingRequest()
clearPendingRequest ==
  /\ wc.pendingRequest # NoRequest \/ wc.stored # 0
  /\ WalletConnectStep(
       RequestHandlerEffect([wc EXCEPT !.pendingRequest = NoRequest, !.stored = 0]),
       "clearPendingRequest", "returned")

\* requests of supported and unsupported methods, with ids 1..MaxRequests
Requests ==
  [id : 1..MaxRequests,
   method : {"eth_sendTransaction", "personal_sign", "eth_signTypedData_v4",
             "wallet_switchEthereumChain"}]

NextWC ==
  \/ WalletInitialized
  \/ \E request \in Requests : SessionRequest(request)
  \/ \E address \in {"", "s1"} : RouteChanged(address)
  \/ approveRequest
  \/ \E requestId \in 0..MaxRequests : rejectRequest(requestId)
  \/ RespondResolved
  \/ RespondFailed
  \/ clearPendingRequest

SpecWC == InitLedger /\ [][NextWC]_vars

\* signature scenarios: one or two transactions on s1, signers in both spellings
SigSaveIn == [safe : {"s1"}, data : {Tx(Num(9), "A")}, sigs : {<<>>}]
SigRemoveIn == [safe : {"s1"}, txHash : {Undefined}]
SigDocs ==
  {Doc(<<Entry(Tx(Num(9), "A"),
               <<Sig("o1", FALSE, "x", FALSE), Sig("o1", TRUE, "y", TRUE)>>)>>),
   Doc(<<Entry(Tx(Str(10), "A"), <<Sig("o2", TRUE, "x", TRUE)>>),
         Entry(Tx(Num(9), "B"), <<>>)>>)}
SigImportIn == [safe : {"s1"}, json : SigDocs]
SigMountIn == [safe : {"s1"}, txHash : {TransactionHash(Tx(Num(9), "A"))}]
SigAddIn ==
  {[signer |-> [id |-> "o1", uc |-> FALSE], data |-> "x"],
   [signer |-> [id |-> "o1", uc |-> TRUE], data |-> "y"],
   [signer |-> [id |-> "o2", uc |-> FALSE], data |-> "x"]}

NextSig ==
  \/ NextOf(SigSaveIn, SigRemoveIn, SigImportIn, SigMountIn, SigAddIn)
  \/ \E s \in Safes : hydrated /\ ExportImport(s)

SpecSig == Init /\ [][NextSig]_vars

\* import and storage scenarios: documents of both shapes, well-formed or
\* not, and a localStorage that refuses writes
NoDataEntry == [hasData |-> FALSE, data |-> Tx(Num(9), "A"), signatures |-> <<>>]
NotJSON == [shape |-> "invalid", entries |-> <<>>]
OtherJSON == [shape |-> "other", entries |-> <<>>]
LegacyDoc(entry) == [shape |-> "tx", entries |-> <<entry>>]
IOSaveIn == [safe : {"s1"}, data : {Tx(Num(10), "A")}, sigs : {<<>>}]
IORemoveIn == [safe : {"s1"}, txHash : {Undefined}]
IODocs ==
  {NotJSON,
   OtherJSON,
   LegacyDoc(NoDataEntry),
   LegacyDoc(Entry(Tx(Num(9), "B"),
                   <<Sig("o1", FALSE, "x", FALSE), Sig("o2", TRUE, "y", TRUE)>>)),
   Doc(<<Entry(Tx(Num(9), "A"), <<Sig("o2", FALSE, "x", FALSE)>>), NoDataEntry>>),
   Doc(<<Entry(Tx(Str(10), "A"), <<>>),
         Entry(Tx(Num(9), "A"), <<Sig("o1", TRUE, "x", FALSE)>>)>>)}
IOImportIn == [safe : {"s1"}, json : IODocs]
IOMountIn == [safe : {"s1"}, txHash : {TransactionHash(Tx(Num(9), "A"))}]
IOAddIn == {[signer |-> [id |-> "o2", uc |-> FALSE], data |-> "y"]}

NextIO ==
  \/ NextOf(IOSaveIn, IORemoveIn, IOImportIn, IOMountIn, IOAddIn)
  \/ \E i \in IOSaveIn : hydrated /\ SaveWith(i.safe, i.data, i.sigs, TRUE)
  \/ \E i \in IORemoveIn : hydrated /\ RemoveWith(i.safe, i.txHash, TRUE)
  \/ \E i \in IOImportIn : hydrated /\ ImportStorageFails(i.safe, i.json)
  \/ \E s \in {"s1"} : hydrated /\ ImportSingle(s)

SpecIO == InitLedger /\ [][NextIO]_vars

\* ------------------------------------------------------------ observations
\* what getAllTransactions(s) shows: the transactions of the list, by value
ListOf(h, m, s) == [i \in 1..Len(GetList(m, s)) |-> h[GetList(m, s)[i]]]
Ledger(h, m) == [s \in Safes |-> ListOf(h, m, s)]
NoncesOf(list) == [i \in 1..Len(list) |-> Number(list[i].data.nonce)]
AddSignatureOps == {"handleAddSignature", "handleAddSignature(again)",
                    "handleAddSignature(other case)"}
Mutations == {"saveTransaction", "importTx", "removeTransaction(hash)",
              "removeTransaction()", "broadcastSucceeded", "modalSuccess"}
               \cup AddSignatureOps

\* ------------------------------------------------------------------ claims

\* C1: in every reachable state the list of a Safe holds at most one
\* transaction per nonce.
C1_OneTransactionPerNonce ==
  \A s \in Safes :
    \A i, j \in 1..Len(GetList(txMap, s)) :
      i # j => NoncesOf(ListOf(heap, txMap, s))[i] # NoncesOf(ListOf(heap, txMap, s))[j]

\* C2: the list getAllTransactions returns is in ascending order of the
\* numeric value of the nonce, after every mutation and in every other state.
C2_AscendingNumericNonce ==
  \A s \in Safes :
    \A i \in 1..(Len(GetList(txMap, s)) - 1) :
      NoncesOf(ListOf(heap, txMap, s))[i] <= NoncesOf(ListOf(heap, txMap, s))[i + 1]

\* a mutation has just left the string nonce "10" behind the number 9
C2_Witness ==
  /\ lastOp \in Mutations
  /\ Len(GetList(txMap, "s1")) = 2
  /\ heap[txMap["s1"][1]].data.nonce = Num(9)
  /\ heap[txMap["s1"][2]].data.nonce = Str(10)

\* C3: a save at a nonce that holds a transaction with other data leaves, at
\* that nonce, only the signatures supplied with the save.
C3_SaveDropsOldSignatures ==
  [][\A i \in LedgerSaveIn :
       ( /\ Save(i.safe, i.data, i.sigs)
         /\ \E k \in 1..Len(GetList(txMap, i.safe)) :
              /\ Number(ListOf(heap, txMap, i.safe)[k].data.nonce) = Number(i.data.nonce)
              /\ ListOf(heap, txMap, i.safe)[k].data # i.data )
       => \A k \in 1..Len(GetList(txMap', i.safe)) :
            Number(ListOf(heap', txMap', i.safe)[k].data.nonce) = Number(i.data.nonce)
              => MapValues(ListOf(heap', txMap', i.safe)[k].signatures) = i.sigs]_vars

\* signers of a signature array are pairwise different when lowercased
UniqueSigners(sigs) ==
  \A i, j \in 1..Len(sigs) :
    i # j => ToLowerCase(sigs[i].signer) # ToLowerCase(sigs[j].signer)

\* the signatures an array holds for one signer, whatever the spelling
SigsOf(sigs, signer) ==
  {i \in 1..Len(sigs) : ToLowerCase(sigs[i].signer) = ToLowerCase(signer)}

EverySignerOnce ==
  /\ \A o \in DOMAIN heap : UniqueSigners(MapValues(heap[o].signatures))
  /\ \A s \in DOMAIN storage.map :
       \A i \in 1..Len(storage.map[s]) : UniqueSigners(storage.map[s][i].signatures)

\* the transaction the view shows, after handleAddSignature(signer, data), is
\* in memory and in storage with one signature of that signer: the new one
LaterAdditionWins(signer, data) ==
  \E o \in view'.safeTx :
    LET sigs == MapValues(heap'[o].signatures)
    IN /\ Cardinality(SigsOf(sigs, signer)) = 1
       /\ \A i \in SigsOf(sigs, signer) : sigs[i].signer = signer /\ sigs[i].data = data
       /\ \E k \in 1..Len(GetList(txMap', view.safe)) :
            ListOf(heap', txMap', view.safe)[k] = heap'[o]
       /\ \E k \in 1..Len(storage'.map[view.safe]) :
            storage'.map[view.safe][k] = ToStored(heap'[o])

\* every entry of an imported document is in the list with one signature per
\* signer, the last one the document has for that signer
LastOfDocumentWins(s, json) ==
  \A e \in 1..Len(json.entries) :
    \E k \in 1..Len(GetList(txMap', s)) :
      LET tx == ListOf(heap', txMap', s)[k]
          sigs == MapValues(tx.signatures)
          given == json.entries[e].signatures
      IN /\ tx.data = json.entries[e].data
         /\ \A g \in 1..Len(given) :
              /\ Cardinality(SigsOf(sigs, given[g].signer)) = 1
              /\ \A i \in SigsOf(sigs, given[g].signer) :
                   sigs[i] = given[CHOOSE m \in SigsOf(given, given[g].signer) :
                                     \A n \in SigsOf(given, given[g].signer) : n <= m]

\* C4: the signers of one transaction are unique under case-insensitive
\* comparison after signature additions, imports and hydrations, and a signer
\* who signs again, in any spelling, is left with the later signature only.
C4_SignersUniqueLaterWins ==
  [][/\ EverySignerOnce'
     /\ \A i \in SigAddIn :
          (lastOp' \in AddSignatureOps /\ handleAddSignature(i.signer, i.data))
            => LaterAdditionWins(i.signer, i.data)
     /\ \A i \in SigImportIn :
          (lastOp' = "importTx" /\ Import(i.safe, i.json))
            => LastOfDocumentWins(i.safe, i.json)]_vars

\* a signer present in one spelling has just signed again in the other
C4_Witness ==
  /\ lastOp = "handleAddSignature(other case)"
  /\ \E o \in view.safeTx : Len(heap[o].signatures) = 2

\* C5: adding a signature for a nonce that has no transaction in the ledger
\* leaves the ledger unchanged, in memory and in storage.
C5_NoInsertByAddSignature ==
  [][\A i \in LedgerAddIn :
       ( /\ handleAddSignature(i.signer, i.data)
         /\ \A o \in view.safeTx :
              \A k \in 1..Len(GetList(txMap, view.safe)) :
                 NoncesOf(ListOf(heap, txMap, view.safe))[k] # Number(heap[o].data.nonce) )
       => /\ Ledger(heap', txMap') = Ledger(heap, txMap)
          /\ storage' = storage]_vars

\* C6: a later saveTransaction never changes a list that getAllTransactions
\* returned earlier.
HeldList == [i \in 1..Len(Contents(txMap, view)) |-> heap[Contents(txMap, view)[i]]]
C6_ReturnedListIsACopy ==
  [][\A i \in LedgerSaveIn :
       (Save(i.safe, i.data, i.sigs) /\ view.loading) => HeldList' = HeldList]_vars

\* C7: removeTransaction with the identifier of a stored transaction removes
\* exactly that transaction; with an identifier of no stored transaction it
\* changes nothing; without an identifier it empties that key only.
Identified(tx, txHash) == txHash.def /\ TransactionHash(tx.data) = txHash.str
C7_RemoveExactlyTheIdentified ==
  [][\A i \in LedgerRemoveIn :
       Remove(i.safe, i.txHash)
       => \A s \in Safes :
            LET NotIdentified(tx) == ~Identified(tx, i.txHash)
            IN ListOf(heap', txMap', s) =
                 IF s # i.safe THEN ListOf(heap, txMap, s)
                 ELSE IF i.txHash.def
                 THEN SelectSeq(ListOf(heap, txMap, s), NotIdentified)
                 ELSE <<>>]_vars

\* C8: a successful broadcast removes exactly the broadcast nonce and keeps
\* every other queued transaction; a failed broadcast changes nothing.
C8_BroadcastRemovesOnlyItsNonce ==
  [][/\ BroadcastSucceeded
        => \A o \in bcast.tx :
             LET OtherNonce(tx) == Number(tx.data.nonce) # Number(heap[o].data.nonce)
             IN ListOf(heap', txMap', bcast.safe)
                  = SelectSeq(ListOf(heap, txMap, bcast.safe), OtherNonce)
     /\ BroadcastFailed
        => Ledger(heap', txMap') = Ledger(heap, txMap) /\ storage' = storage]_vars

\* the transaction the view shows has as many signers as the threshold asks
ReadyToBroadcast == SignatureCount(heap, view) >= safeInfo.threshold

EquivalentLists(a, b) ==
  /\ Len(a) = Len(b)
  /\ \A i \in 1..Len(a) :
       /\ a[i].data = b[i].data
       /\ Range(MapValues(a[i].signatures)) = Range(MapValues(b[i].signatures))

C10_ExportImportRoundTrip ==
  [][\A s \in Safes :
       (lastOp' = "importTx(exportTx)" /\ ExportImport(s))
       => \A t \in Safes :
            EquivalentLists(ListOf(heap', txMap', t), ListOf(heap, txMap, t))]_vars

\* a list of two transactions, one with a contract signature, went through
\* export and import
C10_Witness ==
  /\ lastOp = "importTx(exportTx)"
  /\ Len(GetList(txMap, "s1")) = 2
  /\ \E i \in 1..2 :
       \E j \in 1..Len(heap[txMap["s1"][i]].signatures) :
          heap[txMap["s1"][i]].signatures[j].val.isContractSignature

\* a document importTx cannot take as a whole: not JSON, neither accepted
\* shape, or an entry without its data
Malformed(json) ==
  \/ ParseThrows(json)
  \/ json.shape \notin {"transactions", "tx"}
  \/ \E k \in 1..Len(json.entries) : ~json.entries[k].hasData

\* C11: importTx of a malformed document leaves the in-memory lists and the
\* stored map exactly as they were.
C11_ImportIsAtomic ==
  [][\A i \in IOImportIn :
       (lastOp' = "importTx" /\ Malformed(i.json) /\ Import(i.safe, i.json))
       => /\ Ledger(heap', txMap') = Ledger(heap, txMap)
          /\ storage' = storage]_vars

\* C12: importTx of a malformed document ends, for its caller, in another way
\* than a successful import does (which returns normally, without a value).
C12_MalformedImportIsReported ==
  [][\A i \in IOImportIn :
       (lastOp' = "importTx" /\ Malformed(i.json) /\ Import(i.safe, i.json))
       => outcome' # "returned"]_vars

\* the signatures a transaction carries, as a set
SignatureSet(tx) == Range(MapValues(tx.signatures))

\* C13: a well-formed legacy document {tx: {data, signatures}} is imported as
\* the list of that one transaction with its data and all its signatures (also
\* the document handleExportSingle writes), and a well-formed document
\* {transactions: [...]} with at least one transaction as the list of all its
\* transactions in ascending order of nonce.
C13_BothShapesImported ==
  [][/\ \A i \in IOImportIn :
          (lastOp' = "importTx" /\ ~Malformed(i.json) /\ Len(i.json.entries) > 0
             /\ Import(i.safe, i.json))
          => LET after == ListOf(heap', txMap', i.safe)
                 given == i.json.entries
             IN /\ Len(after) = Len(given)
                /\ \A k \in 1..Len(given) :
                     \E j \in 1..Len(after) :
                        /\ after[j].data = given[k].data
                        /\ SignatureSet(after[j]) = Range(given[k].signatures)
                /\ \A j \in 1..(Len(after) - 1) :
                     NoncesOf(after)[j] <= NoncesOf(after)[j + 1]
     /\ \A s \in Safes :
          (lastOp' = "importTx(single)" /\ ImportSingle(s))
          => LET after == ListOf(heap', txMap', s)
                 shown == heap[TheOne(view.safeTx)]
             IN /\ Len(after) = 1
                /\ after[1].data = shown.data
                /\ SignatureSet(after[1]) = SignatureSet(shown)]_vars

\* the file written for a transaction with two signatures was imported and is
\* now the whole list of s1
C13_Witness ==
  /\ lastOp = "importTx(single)"
  /\ Len(GetList(txMap, "s1")) = 1
  /\ Len(heap[txMap["s1"][1]].signatures) = 2

\* the stored entry of key s is the serialization of the in-memory list (no
\* entry for an empty list) and hydrating it gives the in-memory list
WrittenThrough(h, m, st, s) ==
  IF GetList(m, s) = <<>>
  THEN s \notin DOMAIN ParsedMap(st)
  ELSE /\ st.exists
       /\ s \in DOMAIN st.map
       /\ Len(st.map[s]) = Len(m[s])
       /\ \A k \in 1..Len(m[s]) :
            /\ st.map[s][k].data = h[m[s][k]].data
            /\ st.map[s][k].signatures = MapValues(h[m[s][k]].signatures)
            /\ Revive(st.map[s][k]) = h[m[s][k]]

\* C14: after every completed saveTransaction (also the one handleAddSignature
\* makes), removeTransaction and importTx that adopted its document, the stored
\* entry of the key is the serialization of its in-memory list, and hydrating
\* from it reproduces that list.
C14_WriteThrough ==
  [][/\ \A i \in IOSaveIn :
          (lastOp' = "saveTransaction" /\ Save(i.safe, i.data, i.sigs))
          => WrittenThrough(heap', txMap', storage', i.safe)
     /\ \A i \in IOAddIn :
          (lastOp' \in AddSignatureOps /\ handleAddSignature(i.signer, i.data))
          => WrittenThrough(heap', txMap', storage', view.safe)
     /\ \A i \in IORemoveIn :
          (lastOp' = "removeTransaction()" /\ Remove(i.safe, i.txHash))
          => WrittenThrough(heap', txMap', storage', i.safe)
     /\ \A i \in IOImportIn :
          (lastOp' = "importTx" /\ ~ParseThrows(i.json)
             /\ Len(ImportedTransactions(i.json)) > 0 /\ Import(i.safe, i.json))
          => WrittenThrough(heap', txMap', storage', i.safe)]_vars

\* a save has just written a list of two transactions, one of them signed
C14_Witness ==
  /\ lastOp = "saveTransaction"
  /\ storage.exists
  /\ "s1" \in DOMAIN storage.map
  /\ Len(storage.map["s1"]) = 2
  /\ \E k \in 1..2 : storage.map["s1"][k].signatures # <<>>

\* C15: when the write to storage fails during saveTransaction,
\* removeTransaction or importTx, the call throws to its caller and the
\* in-memory list already shows the operation.
C15_StorageFailurePropagates ==
  [][/\ \A i \in IOSaveIn :
          (lastOp' = "saveTransaction(storage failed)"
             /\ SaveWith(i.safe, i.data, i.sigs, TRUE))
          => /\ outcome' = "threw"
             /\ \E k \in 1..Len(GetList(txMap', i.safe)) :
                  ListOf(heap', txMap', i.safe)[k].data = i.data
     /\ \A i \in IORemoveIn :
          (lastOp' = "removeTransaction(storage failed)"
             /\ RemoveWith(i.safe, i.txHash, TRUE))
          => /\ outcome' = "threw"
             /\ ListOf(heap', txMap', i.safe) = <<>>
     /\ \A i \in IOImportIn :
          (lastOp' = "importTx(storage failed)" /\ ImportStorageFails(i.safe, i.json))
          => /\ outcome' = "threw"
             /\ Len(ListOf(heap', txMap', i.safe)) = Len(ImportedTransactions(i.json))]_vars

\* ------------------------------------------------------ chains (C16)
Chains == {"c1", "c2"}

\* callers pass String(chain.id) as a further argument (getAllTransactions at
\* part_002:806, saveTransaction at part_002:1103); the provider's functions
\* declare no such parameter and the argument is dropped
getAllTransactionsOnChain(h, m, s, chainId) == ListOf(h, m, s)
StoredOnChain(st, s, chainId) == GetList(ParsedMap(st), s)
SaveOnChain(s, chainId, data, sigs) == Save(s, data, sigs)
handleAddSignatureOnChain(chainId, signerAddress, signatureData) ==
  handleAddSignature(signerAddress, signatureData)

\* every key (safeAddress, chainId) but the given one shows and stores what it did
OtherKeysUnchanged(s, chainId) ==
  \A t \in Safes : \A c \in Chains :
     <<t, c>> # <<s, chainId>>
     => /\ getAllTransactionsOnChain(heap', txMap', t, c)
             = getAllTransactionsOnChain(heap, txMap, t, c)
        /\ StoredOnChain(storage', t, c) = StoredOnChain(storage, t, c)

\* C16: a save or a signature addition for (safeAddress, chain A) changes
\* neither what getAllTransactions returns nor what is stored for the same
\* safeAddress on another chain or for another safeAddress.
C16_KeyedBySafeAndChain ==
  [][\A chainId \in Chains :
       /\ \A i \in LedgerSaveIn :
            (lastOp' = "saveTransaction" /\ SaveOnChain(i.safe, chainId, i.data, i.sigs))
            => OtherKeysUnchanged(i.safe, chainId)
       /\ \A i \in LedgerAddIn :
            (lastOp' \in AddSignatureOps
               /\ handleAddSignatureOnChain(chainId, i.signer, i.data))
            => OtherKeysUnchanged(view.safe, chainId)]_vars

\* C17: calls on one key take effect in the order they are issued and none
\* loses what an earlier one stored: a signature addition leaves, on the
\* stored transaction it is made for, every signature of another signer that
\* earlier calls had stored there.
C17_NoLostUpdate ==
  [][\A i \in SigAddIn :
       (lastOp' \in AddSignatureOps /\ handleAddSignature(i.signer, i.data))
       => \A k \in 1..Len(GetList(txMap, view.safe)) :
            LET before == ListOf(heap, txMap, view.safe)[k]
                after == ListOf(heap', txMap', view.safe)
            IN before.data = heap[TheOne(view.safeTx)].data
               => \E j \in 1..Len(after) :
                     /\ after[j].data = before.data
                     /\ \A sig \in SignatureSet(before) :
                          \/ ToLowerCase(sig.signer) = ToLowerCase(i.signer)
                          \/ sig \in SignatureSet(after[j])]_vars

\* ------------------------------------------------ ethers.TypedDataEncoder
\* Byte strings are terms: an atom (a typed value as the ABI encodes it) or
\* keccak256 of a concatenation of terms; keccak256 is taken to be injective.
Atom(type, v) == [t |-> type, atom |-> v, parts |-> <<>>]
keccak256(parts) == [t |-> "keccak256", atom |-> "", parts |-> parts]
NoTerm == Atom("none", "")

\* struct type names in the order Array.prototype.sort puts them
StructNames == <<"EIP712Domain", "Mail", "Person", "SafeMessage", "SafeTx">>
AtomicTypes == {"address", "uint256", "uint8", "bytes", "bytes32", "string"}

\* the struct types a struct type's fields name
Links(name, types) ==
  {types[name][i].type : i \in 1..Len(types[name])} \cap DOMAIN types

\* the struct types reachable from a set of them
RECURSIVE Reachable(_, _)
Reachable(names, types) ==
  LET more == names \cup UNION {Links(n, types) : n \in names}
  IN IF more = names THEN names ELSE Reachable(more, types)

\* the types no other type refers to; the encoder wants exactly one
PrimaryTypes(types) ==
  {n \in DOMAIN types : \A m \in DOMAIN types : n \notin Links(m, types)}
PrimaryType(types) == TheOne(PrimaryTypes(types))

\* new TypedDataEncoder(types) throws: unknown field type, circular reference,
\* missing primary type, ambiguous primary types or unused types
EncoderThrows(types) ==
  \/ \E n \in DOMAIN types : \E i \in 1..Len(types[n]) :
        types[n][i].type \notin AtomicTypes \cup DOMAIN types
  \/ \E n \in DOMAIN types : n \in Reachable(Links(n, types), types)
  \/ Cardinality(PrimaryTypes(types)) # 1

\* encodeType: Name(type1 name1,type2 name2,...)
encodeType(name, fields) ==
  <<Atom("struct", name)>> \o [i \in 1..Len(fields) |-> Atom(fields[i].type, fields[i].name)]

RECURSIVE EncodeTypes(_, _)
EncodeTypes(names, types) ==
  IF names = <<>> THEN <<>>
  ELSE encodeType(Head(names), types[Head(names)]) \o EncodeTypes(Tail(names), types)

\* the full type string: the type itself, then its subtypes in sorted order
FullType(name, types) ==
  LET IsSubtype(n) == n \in Reachable(Links(name, types), types) \ {name}
  IN encodeType(name, types[name]) \o EncodeTypes(SelectSeq(StructNames, IsSubtype), types)

\* a value has every field the type declares, at every depth
RECURSIVE Encodable(_, _, _)
Encodable(name, types, value) ==
  \A i \in 1..Len(types[name]) :
     /\ types[name][i].name \in DOMAIN value
     /\ types[name][i].type \in DOMAIN types
          => Encodable(types[name][i].type, types, value[types[name][i].name])

\* encodeData: the type hash, then each field (a struct, bytes and string by
\* their hash, every other type by its padded value)
RECURSIVE EncodeData(_, _, _)
EncodeData(name, types, value) ==
  <<keccak256(FullType(name, types))>> \o
  [i \in 1..Len(types[name]) |->
     LET f == types[name][i]
     IN IF f.type \in DOMAIN types
        THEN keccak256(EncodeData(f.type, types, value[f.name]))
        ELSE IF f.type \in {"bytes", "string"}
        THEN keccak256(<<Atom(f.type, value[f.name])>>)
        ELSE Atom(f.type, value[f.name])]

\* TypedDataEncoder.hashStruct(name, types, value)
TypedDataEncoderHashStructThrows(name, types, value) ==
  \/ EncoderThrows(types)
  \/ name \notin DOMAIN types
  \/ ~Encodable(name, types, value)
TypedDataEncoderHashStruct(name, types, value) == keccak256(EncodeData(name, types, value))

\* TypedDataEncoder.hashDomain(domain): the fields the domain has, in the
\* order name, version, chainId, verifyingContract, salt
DomainFieldNames == <<"name", "version", "chainId", "verifyingContract", "salt">>
DomainFieldTypes ==
  [name |-> "string", version |-> "string", chainId |-> "uint256",
   verifyingContract |-> "address", salt |-> "bytes32"]
DomainFields(domain) ==
  LET Present(n) == n \in DOMAIN domain
      names == SelectSeq(DomainFieldNames, Present)
  IN [i \in 1..Len(names) |-> [name |-> names[i], type |-> DomainFieldTypes[names[i]]]]
TypedDataEncoderHashDomain(domain) ==
  TypedDataEncoderHashStruct("EIP712Domain",
                             [n \in {"EIP712Domain"} |-> DomainFields(domain)], domain)

\* TypedDataEncoder.hash(domain, types, value): the primary type is the one
\* the encoder finds, no argument names it
TypedDataEncoderHashThrows(domain, types, value) ==
  \/ EncoderThrows(types)
  \/ ~Encodable(PrimaryType(types), types, value)
TypedDataEncoderHash(domain, types, value) ==
  keccak256(<<Atom("bytes", "0x1901"), TypedDataEncoderHashDomain(domain),
              TypedDataEncoderHashStruct(PrimaryType(types), types, value)>>)

\* ------------------------------------------------ utils/messageHashing.ts
calculateDomainHash(domain) == TypedDataEncoderHashDomain(domain)
calculateStructHash(primaryType, types, message) ==
  TypedDataEncoderHashStruct(primaryType, types, message)
calculateEIP712Hash(domain, types, message) == TypedDataEncoderHash(domain, types, message)

\* an EIP712HashResult, or the call threw
Threw == [threw |-> TRUE, domainHash |-> NoTerm, messageHash |-> NoTerm, eip712Hash |-> NoTerm]
Hashes(d, m, e) == [threw |-> FALSE, domainHash |-> d, messageHash |-> m, eip712Hash |-> e]

\* delete obj.EIP712Domain
WithoutDomain(types) == [n \in (DOMAIN types) \ {"EIP712Domain"} |-> types[n]]

\* const typesWithoutDomain = { ...types }: the objects in play (the caller's
\* is the first) and the one the new constant refers to
MutSpreadIsAnAlias(types) == [objs |-> <<types>>, ref |-> 1]
SpreadCopy(types) == [objs |-> <<types, types>>, ref |-> 2]
\* delete typesWithoutDomain.EIP712Domain
DeleteDomain(o) == [o EXCEPT !.objs[o.ref] = WithoutDomain(@)]

\* const { domain, types, primaryType, message } = typedData: a field the
\* object lacks comes out undefined, which hashDomain and the spread read as
\* an object without entries and hashStruct as a value without fields or a
\* type name no type has
Destructured(typedData) ==
  [f \in {"domain", "types", "primaryType", "message"} |->
     IF f \in DOMAIN typedData THEN typedData[f]
     ELSE IF f = "primaryType" THEN "undefined" ELSE <<>>]

calculateTypedDataHashOf(typedData) ==
  LET o == DeleteDomain(SpreadCopy(typedData.types))
      typesWithoutDomain == o.objs[o.ref]
  IN IF \/ TypedDataEncoderHashStructThrows(typedData.primaryType, typesWithoutDomain,
                                            typedData.message)
        \/ TypedDataEncoderHashThrows(typedData.domain, typesWithoutDomain,
                                      typedData.message)
     THEN Threw
     ELSE Hashes(calculateDomainHash(typedData.domain),
                 calculateStructHash(typedData.primaryType, typesWithoutDomain,
                                     typedData.message),
                 calculateEIP712Hash(typedData.domain, typesWithoutDomain,
                                     typedData.message))
calculateTypedDataHash(typedData) == calculateTypedDataHashOf(Destructured(typedData))

\* the caller's typedData object once calculateTypedDataHash has run
TypedDataAfterCall(typedData) ==
  IF "types" \in DOMAIN typedData
  THEN [typedData EXCEPT !.types = DeleteDomain(SpreadCopy(typedData.types)).objs[1]]
  ELSE typedData

\* validateTypedData: the message of the error it throws, "" when it returns true
MutValidateTypedDataSkipsDomain(typedData) ==
  IF "types" \notin DOMAIN typedData
  THEN "Invalid EIP-712 format: missing 'types' field"
  ELSE IF "message" \notin DOMAIN typedData
  THEN "Invalid EIP-712 format: missing 'message' field"
  ELSE IF "primaryType" \notin DOMAIN typedData
  THEN "Invalid EIP-712 format: missing 'primaryType' field"
  ELSE ""
validateTypedData(typedData) ==
  IF "types" \notin DOMAIN typedData
  THEN "Invalid EIP-712 format: missing 'types' field"
  ELSE IF "domain" \notin DOMAIN typedData
  THEN "Invalid EIP-712 format: missing 'domain' field"
  ELSE IF "message" \notin DOMAIN typedData
  THEN "Invalid EIP-712 format: missing 'message' field"
  ELSE IF "primaryType" \notin DOMAIN typedData
  THEN "Invalid EIP-712 format: missing 'primaryType' field"
  ELSE ""

\* a version string, its characters as code units relative to "0" ("." is
\* two below "0")
Dot == 46 - 48
VersionString(v) == Digits(v[1]) \o <<Dot>> \o Digits(v[2]) \o <<Dot>> \o Digits(v[3])

\* { chainId, verifyingContract } or { verifyingContract }
DomainOf(includeChainId, chainId, safeAddress) ==
  IF includeChainId
  THEN [k \in {"chainId", "verifyingContract"} |->
          IF k = "chainId" THEN chainId ELSE safeAddress]
  ELSE [k \in {"verifyingContract"} |-> safeAddress]

SafeMessageTypes == [n \in {"SafeMessage"} |-> <<[name |-> "message", type |-> "bytes"]>>]

calculateSafeMessageHashes(safeAddress, chainId, messageContent, safeVersion) ==
  LET includeChainId == ~StrLess(safeVersion, VersionString(<<1, 3, 0>>))
      domain == DomainOf(includeChainId, chainId, safeAddress)
      message == [message |-> messageContent]
  IN [threw |-> FALSE,
      domainHash |-> calculateDomainHash(domain),
      messageHash |-> calculateStructHash("SafeMessage", SafeMessageTypes, message),
      eip712Hash |-> calculateEIP712Hash(domain, SafeMessageTypes, message),
      safeMessage |-> messageContent]

Field(name, type) == [name |-> name, type |-> type]
MutSafeTxTypesNonceMoved ==
  [n \in {"SafeTx"} |->
     <<Field("to", "address"), Field("value", "uint256"), Field("data", "bytes"),
       Field("operation", "uint8"), Field("safeTxGas", "uint256"),
       Field("baseGas", "uint256"), Field("gasPrice", "uint256"),
       Field("gasToken", "address"), Field("nonce", "uint256"),
       Field("refundReceiver", "address")>>]
SafeTxTypes ==
  [n \in {"SafeTx"} |->
     <<Field("to", "address"), Field("value", "uint256"), Field("data", "bytes"),
       Field("operation", "uint8"), Field("safeTxGas", "uint256"),
       Field("baseGas", "uint256"), Field("gasPrice", "uint256"),
       Field("gasToken", "address"), Field("refundReceiver", "address"),
       Field("nonce", "uint256")>>]

calculateSafeTxHashes(safeAddress, chainId, safeTx) ==
  LET domain == DomainOf(TRUE, chainId, safeAddress)
      message == [to |-> safeTx.to, value |-> safeTx.value, data |-> safeTx.data,
                  operation |-> safeTx.operation, safeTxGas |-> safeTx.safeTxGas,
                  baseGas |-> safeTx.baseGas, gasPrice |-> safeTx.gasPrice,
                  gasToken |-> safeTx.gasToken,
                  refundReceiver |-> safeTx.refundReceiver, nonce |-> safeTx.nonce]
  IN Hashes(calculateDomainHash(domain),
            calculateStructHash("SafeTx", SafeTxTypes, message),
            calculateEIP712Hash(domain, SafeTxTypes, message))

\* TxDetailsClient's effect that fills eip712Data once safeTx, safeInfo and
\* chain are there: its own copy of the SafeTx type, and ethers called directly
MutInlineSafeTxTypesOperationFirst ==
  [n \in {"SafeTx"} |->
     <<Field("operation", "uint8"), Field("to", "address"), Field("value", "uint256"),
       Field("data", "bytes"), Field("safeTxGas", "uint256"),
       Field("baseGas", "uint256"), Field("gasPrice", "uint256"),
       Field("gasToken", "address"), Field("refundReceiver", "address"),
       Field("nonce", "uint256")>>]
InlineSafeTxTypes ==
  [n \in {"SafeTx"} |->
     <<Field("to", "address"), Field("value", "uint256"), Field("data", "bytes"),
       Field("operation", "uint8"), Field("safeTxGas", "uint256"),
       Field("baseGas", "uint256"), Field("gasPrice", "uint256"),
       Field("gasToken", "address"), Field("refundReceiver", "address"),
       Field("nonce", "uint256")>>]

Eip712DataEffect(safeAddress, chainId, data) ==
  LET domain == [k \in {"chainId", "verifyingContract"} |->
                   IF k = "chainId" THEN chainId ELSE safeAddress]
      message == [to |-> data.to, value |-> data.value, data |-> data.data,
                  operation |-> data.operation, safeTxGas |-> data.safeTxGas,
                  baseGas |-> data.baseGas, gasPrice |-> data.gasPrice,
                  gasToken |-> data.gasToken, refundReceiver |-> data.refundReceiver,
                  nonce |-> data.nonce]
  IN IF \/ TypedDataEncoderHashStructThrows("SafeTx", InlineSafeTxTypes, message)
        \/ TypedDataEncoderHashThrows(domain, InlineSafeTxTypes, message)
     THEN Threw
     ELSE Hashes(TypedDataEncoderHashDomain(domain),
                 TypedDataEncoderHashStruct("SafeTx", InlineSafeTxTypes, message),
                 TypedDataEncoderHash(domain, InlineSafeTxTypes, message))

\* -------------------------------------------- strings, bytes and UTF-8
\* a string is the sequence of its code units
\* the value of a hex digit, -1 for any other character
HexValue(c) ==
  IF c \in 48..57 THEN c - 48
  ELSE IF c \in 97..102 THEN c - 87
  ELSE IF c \in 65..70 THEN c - 55
  ELSE -1

\* message.startsWith("0x")
StartsWith0x(m) == Len(m) >= 2 /\ m[1] = 48 /\ m[2] = 120

\* ethers getBytes accepts a string matching /^0x(?:[0-9a-f][0-9a-f])*$/i
IsBytesLike(m) ==
  /\ StartsWith0x(m)
  /\ Len(m) % 2 = 0
  /\ \A i \in 3..Len(m) : HexValue(m[i]) >= 0
getBytes(m) ==
  [i \in 1..((Len(m) - 2) \div 2) |-> 16 * HexValue(m[2 * i + 1]) + HexValue(m[2 * i + 2])]

\* how many continuation bytes a leading byte announces, -1 for a byte that
\* cannot lead (a continuation byte or a bad prefix)
ExtraLength(c) ==
  IF c \in 192..223 THEN 1
  ELSE IF c \in 224..239 THEN 2
  ELSE IF c \in 240..247 THEN 3
  ELSE -1
OverlongMask(extra) == IF extra = 1 THEN 127 ELSE IF extra = 2 THEN 2047 ELSE 65535
LeadBits(c, extra) == c % (IF extra = 1 THEN 64 ELSE IF extra = 2 THEN 32 ELSE 16)
RECURSIVE ContinuedBy(_, _)
ContinuedBy(res, bytes) ==
  IF bytes = <<>> THEN res ELSE ContinuedBy(res * 64 + (Head(bytes) % 64), Tail(bytes))

\* ethers getUtf8CodePoints with the default error function, which throws:
\* the code points, or <<-1>> where it throws
RECURSIVE getUtf8CodePoints(_)
getUtf8CodePoints(bytes) ==
  IF bytes = <<>> THEN <<>>
  ELSE LET c == Head(bytes)
           extra == ExtraLength(c)
       IN IF c < 128
          THEN LET rest == getUtf8CodePoints(Tail(bytes))
               IN IF rest = <<-1>> THEN rest ELSE <<c>> \o rest
          ELSE IF extra = -1 \/ Len(bytes) < 1 + extra
          THEN <<-1>>
          ELSE LET cont == SubSeq(bytes, 2, 1 + extra)
                   res == ContinuedBy(LeadBits(c, extra), cont)
               IN IF \/ \E i \in 1..extra : cont[i] \notin 128..191
                     \/ res > 1114111
                     \/ res \in 55296..57343
                     \/ res <= OverlongMask(extra)
                  THEN <<-1>>
                  ELSE LET rest == getUtf8CodePoints(SubSeq(bytes, 2 + extra, Len(bytes)))
                       IN IF rest = <<-1>> THEN rest ELSE <<res>> \o rest

\* String.fromCharCode of the code points: one code unit each, a surrogate
\* pair above 0xffff
RECURSIVE FromCodePoints(_)
FromCodePoints(cps) ==
  IF cps = <<>> THEN <<>>
  ELSE LET c == Head(cps)
       IN (IF c <= 65535 THEN <<c>>
           ELSE <<55296 + (((c - 65536) \div 1024) % 1024), 56320 + ((c - 65536) % 1024)>>)
          \o FromCodePoints(Tail(cps))

\* ethers.toUtf8String(bytes-like): throws on a string that is not hex bytes
\* and on bytes that are not UTF-8
toUtf8StringThrows(m) == ~IsBytesLike(m) \/ getUtf8CodePoints(getBytes(m)) = <<-1>>
toUtf8String(m) == FromCodePoints(getUtf8CodePoints(getBytes(m)))

\* ethers.toUtf8Bytes of a string: a high surrogate must be followed by a low
\* one ("invalid surrogate pair" otherwise)
HighSurrogate(c) == c \in 55296..56319
LowSurrogate(c) == c \in 56320..57343
RECURSIVE toUtf8BytesThrows(_)
toUtf8BytesThrows(str) ==
  /\ str # <<>>
  /\ IF HighSurrogate(Head(str))
     THEN \/ Len(str) < 2
          \/ ~LowSurrogate(str[2])
          \/ toUtf8BytesThrows(SubSeq(str, 3, Len(str)))
     ELSE toUtf8BytesThrows(Tail(str))
RECURSIVE toUtf8Bytes(_)
toUtf8Bytes(str) ==
  IF str = <<>> THEN <<>>
  ELSE LET c == Head(str)
       IN IF c < 128 THEN <<c>> \o toUtf8Bytes(Tail(str))
          ELSE IF c < 2048
          THEN <<192 + (c \div 64), 128 + (c % 64)>> \o toUtf8Bytes(Tail(str))
          ELSE IF HighSurrogate(c)
          THEN LET pair == 65536 + ((c % 1024) * 1024) + (str[2] % 1024)
               IN <<240 + (pair \div 262144), 128 + ((pair \div 4096) % 64),
                    128 + ((pair \div 64) % 64), 128 + (pair % 64)>>
                  \o toUtf8Bytes(SubSeq(str, 3, Len(str)))
          ELSE <<224 + (c \div 4096), 128 + ((c \div 64) % 64), 128 + (c % 64)>>
               \o toUtf8Bytes(Tail(str))

\* the EIP-191 digest of a byte string:
\* keccak256("\x19Ethereum Signed Message:\n" ++ length ++ bytes)
EIP191(bytes) ==
  keccak256(<<Atom("string", "x19Ethereum Signed Message:n"),
              Atom("string", ToString(Len(bytes)))>>
            \o [i \in 1..Len(bytes) |-> Atom("byte", ToString(bytes[i]))])

\* ethers.hashMessage(string): throws where toUtf8Bytes does
hashMessageThrows(str) == toUtf8BytesThrows(str)
hashMessage(str) == EIP191(toUtf8Bytes(str))

\* the digest, or the call threw
Digest(d) == [threw |-> FALSE, digest |-> d]
NoDigest == [threw |-> TRUE, digest |-> NoTerm]

calculatePersonalSignHash(message) ==
  LET decodedMessage ==
        IF StartsWith0x(message) /\ ~toUtf8StringThrows(message)
        THEN toUtf8String(message)
        ELSE message
  IN IF hashMessageThrows(decodedMessage) THEN NoDigest
     ELSE Digest(hashMessage(decodedMessage))

\* ------------------------------------------------- SignMessageClient
\* String.prototype.trim, for the space character
RECURSIVE TrimStart(_)
TrimStart(str) ==
  IF str # <<>> /\ Head(str) = 32 THEN TrimStart(Tail(str)) ELSE str
RECURSIVE TrimEnd(_)
TrimEnd(str) ==
  IF str # <<>> /\ str[Len(str)] = 32 THEN TrimEnd(SubSeq(str, 1, Len(str) - 1)) ELSE str
Trim(str) == TrimEnd(TrimStart(str))

\* a hash as the hex string the functions return it
HexString(term) == ToString(term)

\* viem keccak256 of a hex string: hexToBytes pads an odd number of digits
\* with a leading 0
viemKeccak256(hex) ==
  LET digits == SubSeq(hex, 3, Len(hex))
      padded == IF Len(digits) % 2 = 1 THEN <<48>> \o digits ELSE digits
      bytes == getBytes(<<48, 120>> \o padded)
  IN keccak256([i \in 1..Len(bytes) |-> Atom("byte", ToString(bytes[i]))])

\* the state the component shows: error, rawHashes, safeHashes
Null == [null |-> TRUE]
Shown(error, rawHashes, safeHashes) ==
  [threw |-> FALSE, error |-> error, rawHashes |-> rawHashes, safeHashes |-> safeHashes]

\* rawHashes of a message that has no EIP-712 structure ("" is NoTerm here)
RawOnly(digest) ==
  [domainHash |-> NoTerm, messageHash |-> NoTerm, eip712Hash |-> digest,
   safeMessage |-> digest]

\* if (safeAddress && chain?.id && safeInfo) calculateSafeMessageHashes(...,
\* safeInfo.version || "1.4.1")
WrappedHashes(ctx, digest) ==
  IF ctx.ready
  THEN calculateSafeMessageHashes(
         ctx.safeAddress, ctx.chainId, HexString(digest),
         VersionString(IF ctx.version = <<>> THEN <<1, 4, 1>> ELSE ctx.version))
  ELSE Null

handleCalculateHashes(in) ==
  IF in.messageType = "personal_sign"
  THEN IF Trim(in.personalMessage) = <<>>
       THEN Shown("Please enter a message", Null, Null)
       ELSE LET messageHash == calculatePersonalSignHash(in.personalMessage)
            IN IF messageHash.threw
               THEN Shown("invalid surrogate pair", Null, Null)
               ELSE Shown("", RawOnly(messageHash.digest),
                          WrappedHashes(in.ctx, messageHash.digest))
  ELSE IF in.messageType = "eip712"
  THEN IF ~in.eip712Input.parses
       THEN Shown("Unexpected token", Null, Null)
       ELSE LET typedData == in.eip712Input.value
                invalid == validateTypedData(typedData)
                typedDataHash == calculateTypedDataHash(typedData)
            IN IF invalid # ""
               THEN Shown(invalid, Null, Null)
               ELSE IF typedDataHash.threw
               THEN Shown("ethers: invalid typed data", Null, Null)
               ELSE Shown("", typedDataHash, WrappedHashes(in.ctx, typedDataHash.eip712Hash))
  ELSE IF Trim(in.rawDataInput) = <<>>
       THEN Shown("Please enter raw data (hex string starting with 0x)", Null, Null)
       ELSE LET trimmed == Trim(in.rawDataInput)
                rawDataHex == IF StartsWith0x(trimmed) THEN trimmed ELSE <<48, 120>> \o trimmed
            IN IF Len(rawDataHex) < 3 \/ \E i \in 3..Len(rawDataHex) : HexValue(rawDataHex[i]) < 0
               THEN Shown("Invalid hex string format", Null, Null)
               ELSE LET rawDataHash == viemKeccak256(rawDataHex)
                    IN Shown("", RawOnly(rawDataHash), WrappedHashes(in.ctx, rawDataHash))

\* ------------------------------------------------------ CreateSafeClient
\* a salt nonce is a string of decimal digits
ParseInt(digits) == IF Len(digits) = 1 THEN digits[1] ELSE 10 * digits[1] + digits[2]
ToDecimal(n) == Digits(n)

zeroAddress == "0x0000"
\* let result = { address: zeroAddress, isDeployed: false }; try { result =
\* await predictNewSafeAddress(...) } catch {}; what the chain answers is input
Prediction(answer) ==
  IF answer.ok THEN [address |-> answer.address, isDeployed |-> answer.isDeployed]
  ELSE [address |-> zeroAddress, isDeployed |-> FALSE]

NotFound == [threw |-> TRUE, safeAddress |-> "", saltNonce |-> <<>>]
RECURSIVE PredictFrom(_, _, _)
PredictFrom(in, attempt, saltNonce) ==
  IF attempt >= in.maxAttempts THEN NotFound
  ELSE LET predictions == [i \in 1..Len(in.chains) |->
                             Prediction(in.answers[in.chains[i]][attempt + 1])]
           allMatch == \A i \in 1..Len(predictions) :
                          predictions[i].address = predictions[1].address
           anyDeployed == \E i \in 1..Len(predictions) : predictions[i].isDeployed
       IN IF allMatch /\ ~anyDeployed
          THEN [threw |-> FALSE, safeAddress |-> predictions[1].address,
                saltNonce |-> saltNonce]
          ELSE PredictFrom(in, attempt + 1, ToDecimal(ParseInt(saltNonce) + 1))

predictConsistentSafeAddressAcrossChains(in) == PredictFrom(in, 0, in.initialSaltNonce)

\* ------------------------------------------------------- NewSafeTxClient
\* Math.max of two numbers
Max(a, b) == IF a >= b THEN a ELSE b
RECURSIVE MaxOf(_)
MaxOf(numbers) ==
  IF Len(numbers) = 1 THEN numbers[1] ELSE Max(Head(numbers), MaxOf(Tail(numbers)))

MutNextNonceIgnoresTheQueue(safeInfoOrNull, queuedTransactions) ==
  IF ~safeInfoOrNull.loaded THEN 0 ELSE safeInfoOrNull.nonce
nextAvailableNonce(safeInfoOrNull, queuedTransactions) ==
  IF ~safeInfoOrNull.loaded THEN 0
  ELSE LET queuedNonces == [i \in 1..Len(queuedTransactions) |->
                              Number(queuedTransactions[i].data.nonce)]
           highestQueued == IF Len(queuedNonces) > 0 THEN MaxOf(queuedNonces)
                            ELSE safeInfoOrNull.nonce - 1
       IN Max(highestQueued + 1, safeInfoOrNull.nonce)

\* ------------------------------------------------- hashing scenarios
\* typed data: one struct type, two linked ones, with the EIP712Domain entry
\* wallets send along, and with a type nothing refers to
TPerson == <<Field("name", "string"), Field("wallet", "address")>>
TMail == <<Field("from", "Person"), Field("contents", "string")>>
TDomain == <<Field("chainId", "uint256"), Field("verifyingContract", "address")>>
TypeSets ==
  {[n \in {"Person"} |-> TPerson],
   [n \in {"Mail", "Person"} |-> IF n = "Mail" THEN TMail ELSE TPerson],
   [n \in {"EIP712Domain", "Mail", "Person"} |->
      IF n = "Mail" THEN TMail ELSE IF n = "Person" THEN TPerson ELSE TDomain],
   [n \in {"Person", "SafeMessage"} |->
      IF n = "Person" THEN TPerson ELSE SafeMessageTypes["SafeMessage"]]}
PersonBob == [name |-> "Bob", wallet |-> "0xb0b"]
PersonAmy == [name |-> "Amy", wallet |-> "0xa11"]
Messages ==
  {PersonBob,
   [from |-> PersonAmy, contents |-> "hi"],
   [from |-> PersonBob, contents |-> "hi"],
   [name |-> "Bob", wallet |-> "0xb0b", from |-> PersonAmy, contents |-> "hi"]}
Domains ==
  {DomainOf(FALSE, "1", "0x5afe"), DomainOf(TRUE, "1", "0x5afe"),
   DomainOf(TRUE, "5", "0x5afe")}
TypedDataIn ==
  UNION {[domain : Domains, types : {ts}, primaryType : (DOMAIN ts) \ {"EIP712Domain"},
          message : Messages] : ts \in TypeSets}

\* Safe messages: versions on both sides of 1.3.0
SafeVersions ==
  {<<0, 1, 0>>, <<1, 1, 1>>, <<1, 2, 0>>, <<1, 3, 0>>, <<1, 4, 1>>, <<1, 5, 0>>,
   <<1, 10, 0>>, <<2, 0, 0>>}
SafeMessageIn ==
  [safeAddress : {"0x5afe", "0x5aff"}, chainId : {"1", "5"},
   messageContent : {"0xaa", "0xbb"}, safeVersion : SafeVersions]

\* Safe transactions
SafeTxIn ==
  [safeAddress : {"0x5afe", "0x5aff"}, chainId : {"1", "5"},
   safeTx : [to : {"0x0", "0xb0b"}, value : {"0", "1"}, data : {"0x", "0xab"},
             operation : {"0", "1"}, safeTxGas : {"0"}, baseGas : {"0"},
             gasPrice : {"0"}, gasToken : {"0x0"}, refundReceiver : {"0x0"},
             nonce : {"0", "1"}]]

\* personal_sign messages: "0x" and up to MaxHexDigits characters that are hex
\* digits or "g", some longer ones (the euro sign, an emoji, a surrogate, an
\* overlong NUL), and plain text, with a surrogate pair and with lone surrogates
HexChars == {52, 49, 99, 51, 97, 57, 103}
RECURSIVE StringsUpTo(_, _)
StringsUpTo(chars, n) ==
  IF n = 0 THEN {<<>>}
  ELSE LET shorter == StringsUpTo(chars, n - 1)
       IN shorter \cup {<<c>> \o str : c \in chars, str \in shorter}
PersonalSignIn ==
  {<<48, 120>> \o str : str \in StringsUpTo(HexChars, MaxHexDigits)}
  \cup {<<48, 120, 101, 50, 56, 50, 97, 99>>, <<48, 120, 102, 48, 57, 102, 57, 56, 56, 48>>,
        <<48, 120, 101, 100, 97, 48, 56, 48>>, <<48, 120, 99, 48, 56, 48>>,
        <<48, 88, 52, 49>>, <<104, 105>>, <<>>, <<48>>, <<120, 48>>, <<233>>,
        <<55357, 56832>>, <<104, 55357>>, <<56832>>}

\* what SignMessageClient is asked to hash
ExampleTypedData ==
  [domain |-> DomainOf(TRUE, "1", "0x5afe"),
   types |-> [n \in {"EIP712Domain", "Mail", "Person"} |->
                IF n = "Mail" THEN TMail ELSE IF n = "Person" THEN TPerson ELSE TDomain],
   primaryType |-> "Mail",
   message |-> [from |-> PersonAmy, contents |-> "hi"]]
Restricted(obj, keys) == [k \in keys |-> obj[k]]
Contexts ==
  {[ready |-> FALSE, safeAddress |-> "", chainId |-> "", version |-> <<>>],
   [ready |-> TRUE, safeAddress |-> "0x5afe", chainId |-> "1", version |-> <<>>],
   [ready |-> TRUE, safeAddress |-> "0x5afe", chainId |-> "1", version |-> <<1, 2, 0>>]}
SignMessageIn ==
  [messageType : {"personal_sign"},
   personalMessage : {<<>>, <<32>>, <<104, 105>>, <<48, 120, 52, 49>>, <<32, 104, 105>>},
   eip712Input : {[parses |-> TRUE, value |-> ExampleTypedData]},
   rawDataInput : {<<>>}, ctx : Contexts]
  \cup
  [messageType : {"eip712"}, personalMessage : {<<>>},
   eip712Input : {[parses |-> FALSE, value |-> ExampleTypedData]}
                 \cup {[parses |-> TRUE, value |-> Restricted(td, keys)] :
                         td \in {ExampleTypedData,
                                 [ExampleTypedData EXCEPT !.primaryType = "Person"]},
                         keys \in SUBSET {"domain", "types", "primaryType", "message"}},
   rawDataInput : {<<>>}, ctx : Contexts]
  \cup
  [messageType : {"raw_data"}, personalMessage : {<<>>},
   eip712Input : {[parses |-> TRUE, value |-> ExampleTypedData]},
   rawDataInput : {<<>>, <<32>>, <<52, 49>>, <<48, 120, 52, 49>>, <<48, 120, 52>>,
                   <<48, 120, 103, 49>>, <<48, 120>>, <<32, 48, 120, 52, 49, 32>>},
   ctx : Contexts]

\* what the chains answer to predictNewSafeAddress, per chain and attempt:
\* a failure, an address that is free or taken, another address
Answers ==
  {[ok |-> FALSE, address |-> "", isDeployed |-> FALSE],
   [ok |-> TRUE, address |-> "0xaaaa", isDeployed |-> FALSE],
   [ok |-> TRUE, address |-> "0xaaaa", isDeployed |-> TRUE],
   [ok |-> TRUE, address |-> "0xbbbb", isDeployed |-> FALSE]}
PredictIn ==
  UNION {[chains : {chains}, initialSaltNonce : {ToDecimal(0), ToDecimal(9)},
          maxAttempts : 1..MaxAttempts,
          answers : [Range(chains) -> [1..MaxAttempts -> Answers]]] :
         chains \in {<<"c1">>, <<"c1", "c2">>}}

\* a Safe whose info is loaded or not, and the queue of its transactions as
\* the provider keeps it, in ascending order of nonce
QueuedNonces == {Num(n) : n \in 0..MaxNonce} \cup {Str(n) : n \in 0..MaxNonce}
NextNonceIn ==
  [safeInfo : [loaded : BOOLEAN, nonce : 0..MaxNonce],
   queued : {<<>>} \cup {<<NewEthSafeTransaction(Tx(a, "A"))>> : a \in QueuedNonces}
            \cup {<<NewEthSafeTransaction(Tx(p[1], "A")), NewEthSafeTransaction(Tx(p[2], "B"))>> :
                    p \in {q \in QueuedNonces \X QueuedNonces : Number(q[2]) >= Number(q[1])}}]

Called(fn, args) == [pc |-> "called", fn |-> fn, args |-> args]
Returned(call, result) ==
  [pc |-> IF result.threw THEN "threw" ELSE "returned", fn |-> call.fn,
   args |-> call.args, argsAfter |-> call.args, result |-> result]

\* a function of utils/messageHashing.ts has been called with some arguments
InitHash ==
  /\ heap = <<>>
  /\ txMap = NoKeys
  /\ storage = [exists |-> FALSE, map |-> NoKeys]
  /\ hydrated = FALSE
  /\ view = NoView
  /\ bcast = NoBcast
  /\ safeInfo = [threshold |-> MaxThreshold, isOwner |-> TRUE]
  /\ outcome = "returned"
  /\ wc = NoWalletConnect
  /\ lastOp = "init"
  /\ hash \in {Called("calculateTypedDataHash", a) : a \in TypedDataIn}
        \cup {Called("calculateSafeMessageHashes", a) : a \in SafeMessageIn}
        \cup {Called("calculateSafeTxHashes", a) : a \in SafeTxIn}
        \cup {Called("calculatePersonalSignHash", a) : a \in PersonalSignIn}
        \cup {Called("Eip712DataEffect", a) : a \in SafeTxIn}
        \cup {Called("predictConsistentSafeAddressAcrossChains", a) : a \in PredictIn}
        \cup {Called("nextAvailableNonce", a) : a \in NextNonceIn}
        \cup {Called("handleCalculateHashes", a) : a \in SignMessageIn}

ledgerVars == <<heap, txMap, storage, hydrated, view, bcast, safeInfo, outcome, wc, lastOp>>

TypedDataHashReturns ==
  /\ hash.pc = "called" /\ hash.fn = "calculateTypedDataHash"
  /\ hash' = [Returned(hash, calculateTypedDataHash(hash.args))
                EXCEPT !.argsAfter = TypedDataAfterCall(hash.args)]
  /\ UNCHANGED ledgerVars

SafeMessageHashesReturn ==
  /\ hash.pc = "called" /\ hash.fn = "calculateSafeMessageHashes"
  /\ hash' = Returned(hash, calculateSafeMessageHashes(
                               hash.args.safeAddress, hash.args.chainId,
                               hash.args.messageContent,
                               VersionString(hash.args.safeVersion)))
  /\ UNCHANGED ledgerVars

SafeTxHashesReturn ==
  /\ hash.pc = "called" /\ hash.fn = "calculateSafeTxHashes"
  /\ hash' = Returned(hash, calculateSafeTxHashes(hash.args.safeAddress,
                                                  hash.args.chainId, hash.args.safeTx))
  /\ UNCHANGED ledgerVars

PersonalSignHashReturns ==
  /\ hash.pc = "called" /\ hash.fn = "calculatePersonalSignHash"
  /\ hash' = Returned(hash, calculatePersonalSignHash(hash.args))
  /\ UNCHANGED ledgerVars

CalculateHashesClicked ==
  /\ hash.pc = "called" /\ hash.fn = "handleCalculateHashes"
  /\ hash' = Returned(hash, handleCalculateHashes(hash.args))
  /\ UNCHANGED ledgerVars

\* the effect has run for the transaction the view loaded
Eip712DataEffectRan ==
  /\ hash.pc = "called" /\ hash.fn = "Eip712DataEffect"
  /\ hash' = Returned(hash, Eip712DataEffect(hash.args.safeAddress, hash.args.chainId,
                                             hash.args.safeTx))
  /\ UNCHANGED ledgerVars

PredictionReturns ==
  /\ hash.pc = "called" /\ hash.fn = "predictConsistentSafeAddressAcrossChains"
  /\ hash' = Returned(hash, predictConsistentSafeAddressAcrossChains(hash.args))
  /\ UNCHANGED ledgerVars

\* NewSafeTxClient renders and the memo computes nextAvailableNonce
NextNonceComputed ==
  /\ hash.pc = "called" /\ hash.fn = "nextAvailableNonce"
  /\ hash' = Returned(hash, [threw |-> FALSE,
                             value |-> nextAvailableNonce(hash.args.safeInfo,
                                                          hash.args.queued)])
  /\ UNCHANGED ledgerVars

NextHash ==
  \/ PredictionReturns
  \/ NextNonceComputed
  \/ Eip712DataEffectRan
  \/ TypedDataHashReturns
  \/ SafeMessageHashesReturn
  \/ SafeTxHashesReturn
  \/ PersonalSignHashReturns
  \/ CalculateHashesClicked

SpecHash == InitHash /\ [][NextHash]_vars

ReturnedFrom(fn) == hash.pc = "returned" /\ hash.fn = fn

\* C18: the three hashes calculateTypedDataHash returns fit together:
\* domainHash is the struct hash of the domain, messageHash the struct hash of
\* the message under the caller's primaryType, and eip712Hash is
\* keccak256(0x1901 ++ domainHash ++ messageHash).
C18_TypedDataHashesConsistent ==
  ReturnedFrom("calculateTypedDataHash")
  => /\ hash.result.domainHash = TypedDataEncoderHashDomain(hash.args.domain)
     /\ hash.result.messageHash =
          TypedDataEncoderHashStruct(hash.args.primaryType,
                                     WithoutDomain(hash.args.types), hash.args.message)
     /\ hash.result.eip712Hash =
          keccak256(<<Atom("bytes", "0x1901"), hash.result.domainHash,
                      hash.result.messageHash>>)

\* a >= b in version order
VersionAtLeast(a, b) ==
  \/ a[1] > b[1]
  \/ a[1] = b[1] /\ a[2] > b[2]
  \/ a[1] = b[1] /\ a[2] = b[2] /\ a[3] >= b[3]

\* C19: the domain calculateSafeMessageHashes hashes has chainId exactly when
\* safeVersion is at or above 1.3.0 in version order.
C19_ChainIdFromVersion130 ==
  ReturnedFrom("calculateSafeMessageHashes")
  => hash.result.domainHash =
       TypedDataEncoderHashDomain(
          DomainOf(VersionAtLeast(hash.args.safeVersion, <<1, 3, 0>>),
                   hash.args.chainId, hash.args.safeAddress))

\* what the Safe contract computes in getTransactionHash: its two type hashes
\* are the hashes of "EIP712Domain(uint256 chainId,address verifyingContract)"
\* and "SafeTx(address to,uint256 value,bytes data,uint8 operation,uint256
\* safeTxGas,uint256 baseGas,uint256 gasPrice,address gasToken,address
\* refundReceiver,uint256 nonce)"
ContractDomainSeparator(safeAddress, chainId) ==
  keccak256(<<keccak256(<<Atom("struct", "EIP712Domain"), Atom("uint256", "chainId"),
                          Atom("address", "verifyingContract")>>),
              Atom("uint256", chainId), Atom("address", safeAddress)>>)
ContractSafeTxHash(tx) ==
  keccak256(<<keccak256(<<Atom("struct", "SafeTx"), Atom("address", "to"),
                          Atom("uint256", "value"), Atom("bytes", "data"),
                          Atom("uint8", "operation"), Atom("uint256", "safeTxGas"),
                          Atom("uint256", "baseGas"), Atom("uint256", "gasPrice"),
                          Atom("address", "gasToken"), Atom("address", "refundReceiver"),
                          Atom("uint256", "nonce")>>),
              Atom("address", tx.to), Atom("uint256", tx.value),
              keccak256(<<Atom("bytes", tx.data)>>), Atom("uint8", tx.operation),
              Atom("uint256", tx.safeTxGas), Atom("uint256", tx.baseGas),
              Atom("uint256", tx.gasPrice), Atom("address", tx.gasToken),
              Atom("address", tx.refundReceiver), Atom("uint256", tx.nonce)>>)

RequiredFields == <<"types", "domain", "message", "primaryType">>
Lacking(typedData) == {RequiredFields[i] : i \in 1..4} \ DOMAIN typedData
MissingFieldError(f) ==
  IF f = "types" THEN "Invalid EIP-712 format: missing 'types' field"
  ELSE IF f = "domain" THEN "Invalid EIP-712 format: missing 'domain' field"
  ELSE IF f = "message" THEN "Invalid EIP-712 format: missing 'message' field"
  ELSE "Invalid EIP-712 format: missing 'primaryType' field"

TypedDataSubmitted ==
  /\ ReturnedFrom("handleCalculateHashes")
  /\ hash.args.messageType = "eip712"
  /\ hash.args.eip712Input.parses

C22_PersonalSignNeverThrows ==
  hash.fn = "calculatePersonalSignHash" /\ hash.pc # "called"
  => /\ hash.pc = "returned"
     /\ hash.result.digest =
          IF IsBytesLike(hash.args) /\ getUtf8CodePoints(getBytes(hash.args)) # <<-1>>
          THEN EIP191(getBytes(hash.args))
          ELSE EIP191(toUtf8Bytes(hash.args))

\* C23: calculateTypedDataHash hashes the message under the types without the
\* EIP712Domain entry and leaves its argument as it was: the caller's types
\* still has every entry, EIP712Domain included.
C23_ArgumentNotMutated ==
  hash.fn = "calculateTypedDataHash" /\ hash.pc # "called"
  => /\ hash.argsAfter = hash.args
     /\ hash.pc = "returned"
          => hash.result.messageHash =
               TypedDataEncoderHashStruct(
                  hash.args.primaryType,
                  [n \in (DOMAIN hash.args.types) \ {"EIP712Domain"} |-> hash.args.types[n]],
                  hash.args.message)

\* hashes were returned for typed data whose types has an EIP712Domain entry
C23_Witness ==
  /\ ReturnedFrom("calculateTypedDataHash")
  /\ "EIP712Domain" \in DOMAIN hash.args.types

\* C26: the domain hash, message hash and digest the transaction-details
\* view computes inline for a Safe address, chain id and transaction are the
\* ones calculateSafeTxHashes returns for them.
C26_InlineHashesEqualSafeTxHashes ==
  ReturnedFrom("Eip712DataEffect")
  => LET r == calculateSafeTxHashes(hash.args.safeAddress, hash.args.chainId,
                                    hash.args.safeTx)
     IN /\ ~r.threw
        /\ hash.result.domainHash = r.domainHash
        /\ hash.result.messageHash = r.messageHash
        /\ hash.result.eip712Hash = r.eip712Hash

\* the view has computed the hashes of a contract call on chain 5
C26_Witness ==
  /\ ReturnedFrom("Eip712DataEffect")
  /\ hash.args.chainId = "5"
  /\ hash.args.safeTx.data = "0xab"
  /\ hash.args.safeTx.operation = "1"

\* the nonces of the transactions stored for a Safe
StoredNonces(st, s) ==
  {Number(GetList(ParsedMap(st), s)[i].data.nonce) :
     i \in 1..Len(GetList(ParsedMap(st), s))}

\* C24: a saveTransaction that runs after a cold start and before the mount
\* effect has hydrated the memory keeps, in storage, the transactions with
\* other nonces that were persisted for the Safe (from where hydration would
\* bring them back to memory).
C24_PersistedSurviveColdStart ==
  [][(lastOp' = "saveTransaction" /\ ~hydrated)
     => \A s \in Safes : StoredNonces(storage, s) \subseteq StoredNonces(storage', s)]_vars

\* the transactions of a document that importTx can build: the entries with
\* data of a document of either shape
Payload(json) ==
  IF ParseThrows(json) \/ json.shape \notin {"transactions", "tx"}
  THEN <<>>
  ELSE SelectSeq(json.entries, HasData)

\* the stored lists of the Safes other than s
StoredElsewhere(st, s) == [t \in Safes \ {s} |-> GetList(ParsedMap(st), t)]

\* C25: importTx of a document with at least one transaction makes the list
\* of the Safe exactly the document's transactions in ascending order of
\* nonce, each with signatures of the document only, and leaves the other
\* Safes alone; a document without a transaction changes nothing.
C25_ImportReplacesTheList ==
  [][\A i \in LedgerImportIn :
       (lastOp' = "importTx" /\ Import(i.safe, i.json))
       => LET after == ListOf(heap', txMap', i.safe)
              given == Payload(i.json)
          IN IF Len(given) = 0
             THEN Ledger(heap', txMap') = Ledger(heap, txMap) /\ storage' = storage
             ELSE /\ Len(after) = Len(given)
                  /\ \E f \in [1..Len(given) -> 1..Len(after)] :
                        /\ \A k, l \in 1..Len(given) : f[k] = f[l] => k = l
                        /\ \A k \in 1..Len(given) :
                             /\ after[f[k]].data = given[k].data
                             /\ SignatureSet(after[f[k]]) \subseteq Range(given[k].signatures)
                             /\ \A g \in Range(given[k].signatures) :
                                  \E a \in SignatureSet(after[f[k]]) :
                                     ToLowerCase(a.signer) = ToLowerCase(g.signer)
                  /\ \A j \in 1..(Len(after) - 1) :
                       NoncesOf(after)[j] <= NoncesOf(after)[j + 1]
                  /\ \A t \in Safes \ {i.safe} :
                       ListOf(heap', txMap', t) = ListOf(heap, txMap, t)
                  /\ StoredElsewhere(storage', i.safe) = StoredElsewhere(storage, i.safe)]_vars

\* an import has replaced the list of s1 while s2 has a transaction and the
\* open view still holds the replaced, signed transaction of a nonce that the
\* list now has unsigned
C25_Witness ==
  /\ lastOp = "importTx"
  /\ GetList(txMap, "s2") # <<>>
  /\ \E o \in view.safeTx :
       /\ heap[o].signatures # <<>>
       /\ \E k \in 1..Len(GetList(txMap, "s1")) :
            /\ txMap["s1"][k] # o
            /\ Number(heap[txMap["s1"][k]].data.nonce) = Number(heap[o].data.nonce)
            /\ heap[txMap["s1"][k]].signatures = <<>>

\* C27: a pending request of a supported method is stored and navigated to
\* at most once per request id, and once a Safe address is available while
\* the request is pending, also one that arrived while no Safe was open, it
\* has been routed.
C27_RoutedExactlyOnce ==
  /\ \A id \in DOMAIN wc.routed : wc.routed[id] <= 1
  /\ (/\ wc.pendingRequest # NoRequest
      /\ wc.pendingRequest.method \in SendMethods \cup SignMethods
      /\ wc.safeAddress # "")
     => Routed(wc, wc.pendingRequest.id) = 1

\* C28, as stated: a failed respondSessionRequest leaves pendingRequest as it
\* was, sets the provider's error and is rethrown; approveRequest and
\* rejectRequest clear pendingRequest only with the response sent; and
\* rejectRequest without a request id and without a pending request fails
\* with "No request ID available" sending nothing.
C28_RespondThenClear ==
  [][/\ (lastOp' = "respondFailed" /\ RespondFailed)
        => /\ wc'.pendingRequest = wc.pendingRequest
           /\ wc'.error # ""
           /\ outcome' = "threw"
           /\ wc'.sent = wc.sent
     /\ (lastOp' \in {"approveRequest", "rejectRequest", "respondResolved", "respondFailed"}
         /\ wc'.pendingRequest # wc.pendingRequest)
        => /\ wc'.pendingRequest = NoRequest
           /\ wc'.sent = wc.sent \cup {wc.inflight.id}
           /\ wc.inflight # NoCall
     /\ (lastOp' = "rejectRequest" /\ wc.pendingRequest = NoRequest /\ rejectRequest(0))
        => /\ outcome' = "threw"
           /\ wc'.thrown = "No request ID available"
           /\ wc'.inflight = NoCall
           /\ wc'.sent = wc.sent]_vars

\* C28, amended: the same, where rejectRequest without a request id and
\* without a pending request fails with "No request ID available" once the
\* wallet is initialised, and with "Web3Wallet not initialized" before; it
\* sends nothing in either case.
C28_RespondThenClearInitialised ==
  [][/\ (lastOp' = "respondFailed" /\ RespondFailed)
        => /\ wc'.pendingRequest = wc.pendingRequest
           /\ wc'.error # ""
           /\ outcome' = "threw"
           /\ wc'.sent = wc.sent
     /\ (lastOp' \in {"approveRequest", "rejectRequest", "respondResolved", "respondFailed"}
         /\ wc'.pendingRequest # wc.pendingRequest)
        => /\ wc'.pendingRequest = NoRequest
           /\ wc'.sent = wc.sent \cup {wc.inflight.id}
           /\ wc.inflight # NoCall
     /\ (lastOp' = "rejectRequest" /\ wc.pendingRequest = NoRequest /\ rejectRequest(0))
        => /\ outcome' = "threw"
           /\ wc'.thrown = IF wc.web3wallet THEN "No request ID available"
                           ELSE "Web3Wallet not initialized"
           /\ wc'.inflight = NoCall
           /\ wc'.sent = wc.sent]_vars

\* a response could not be delivered: the request is still pending and the
\* provider's error is set
C28_Witness ==
  /\ lastOp = "respondFailed"
  /\ wc.pendingRequest # NoRequest
  /\ wc.error # ""
  /\ wc.sent = {}

\* the attempts at which every selected chain predicted one and the same
\* address, other than the zero address, that is not deployed
GoodAttempts(in) ==
  {k \in 1..in.maxAttempts :
     \A i \in 1..Len(in.chains) :
        /\ in.answers[in.chains[i]][k].ok
        /\ ~in.answers[in.chains[i]][k].isDeployed
        /\ in.answers[in.chains[i]][k].address = in.answers[in.chains[1]][k].address
        /\ in.answers[in.chains[i]][k].address # zeroAddress}

\* C29: predictConsistentSafeAddressAcrossChains returns the first salt nonce,
\* of initial, initial+1, ... up to maxAttempts attempts, for which every
\* selected chain predicted the same undeployed address, with that address,
\* never the zero address of a failed prediction; it throws when there is none.
C29_OnlyConsistentPredictions ==
  hash.fn = "predictConsistentSafeAddressAcrossChains" /\ hash.pc # "called"
  => IF GoodAttempts(hash.args) = {}
     THEN hash.pc = "threw"
     ELSE LET k == CHOOSE a \in GoodAttempts(hash.args) :
                      \A b \in GoodAttempts(hash.args) : a <= b
          IN /\ hash.pc = "returned"
             /\ ParseInt(hash.result.saltNonce) = ParseInt(hash.args.initialSaltNonce) + k - 1
             /\ hash.result.safeAddress = hash.args.answers[hash.args.chains[1]][k].address
             /\ hash.result.safeAddress # zeroAddress

\* C30: nextAvailableNonce is at least the Safe's on-chain nonce and above
\* every queued nonce, the on-chain nonce when nothing is queued, and 0 while
\* the Safe info is not loaded.
C30_NextNonceAboveQueueAndChain ==
  ReturnedFrom("nextAvailableNonce")
  => IF ~hash.args.safeInfo.loaded
     THEN hash.result.value = 0
     ELSE /\ hash.result.value >= hash.args.safeInfo.nonce
          /\ \A i \in 1..Len(hash.args.queued) :
               hash.result.value > hash.args.queued[i].data.nonce.v
          /\ hash.args.queued = <<>> => hash.result.value = hash.args.safeInfo.nonce

\* the nonce was computed for a Safe whose queue reaches beyond its on-chain
\* nonce, with a nonce kept as a string
C30_Witness ==
  /\ ReturnedFrom("nextAvailableNonce")
  /\ hash.args.safeInfo.loaded
  /\ Len(hash.args.queued) = 2
  /\ hash.args.queued[2].data.nonce = Str(MaxNonce)
  /\ hash.args.safeInfo.nonce < MaxNonce
  /\ hash.result.value = MaxNonce + 1

====
